---- MODULE Spec2Model ----
(***************************************************************************)
(* Model of the Beta Team SDK core: the adapter contract (GameAdapter,     *)
(* WebAdapter, VSTAdapter, WindowsAdapter over BaseAdapter) and the report *)
(* generator's issue de-duplication.                                       *)
(*                                                                         *)
(* One adapter object is modelled at a time; its class is chosen in Init.  *)
(* The file system, the launched processes and the automation sessions are *)
(* the environment: what a call finds there is an input of the action.     *)
(***************************************************************************)
EXTENDS Integers, Sequences, FiniteSets, TLC

\* ---------------------------------------------------------------- bounds
MaxExt == 2        \* external resources (processes, sessions) ever created
MaxLogs == 4       \* entries of the adapter's log list
MaxCrashes == 2    \* value of WindowsAdapter._crash_count
MaxAddIssue == 3   \* add_issue calls on one ReportGenerator
MaxResults == 5    \* test results a collector holds when only results are recorded
MaxEvents == 2     \* entries of a collector's five series together, when all are recorded
MaxTime == 2       \* the clock's last value, in a session about elapsed time
MaxClock == 1      \* the clock's last value, in a session with a file
MaxSuites == 2     \* add_suite calls, and add_issue calls beside them
MaxCases == 2      \* test cases of all suites together
MaxScenarios == 2  \* scenarios ticked in the launcher for one run

VARIABLES
    kind,            \* the adapter's class: "game", "web", "vst", "windows"
    connected,       \* BaseAdapter._connected
    config,          \* BaseAdapter._config
    screenshot_dir,  \* GameAdapter._screenshot_dir
    airtest_enabled, \* GameAdapter._airtest_enabled
    process,         \* _process / _daw_process / _app_process: 0 is None, else an index of ext
    session,         \* WindowsAdapter._winappdriver_session, WebAdapter._driver
    playwright,      \* WebAdapter._playwright
    page,            \* WebAdapter._page
    crash_count,     \* WindowsAdapter._crash_count
    nlogs,           \* len(_logs): the log list is append-only, its length is kept
    ext,             \* environment: every process / session created so far, with its state
    last,            \* the last adapter call: its name, inputs' class, result and effects
    issues,          \* ReportGenerator._issues
    issue_ret,       \* the add_issue calls made (and those that gave a test name), and the
                     \* last one: its arguments and the id it returned
    suite_objs,      \* the TestSuite objects that exist: each one's test_cases, as their statuses
    suites,          \* ReportGenerator._suites: references (indices of suite_objs)
    summary,         \* what the last generate_summary, generate_bullet_points or get_trends returned
    now,             \* the clock: what datetime.now() returns
    storage_path,    \* MetricsCollector.storage_path: TRUE when a path is set
    storage,         \* the file at that path
    metrics,         \* MetricsCollector._metrics
    test_results,    \* MetricsCollector._test_results, in insertion order
    crash_events,    \* MetricsCollector._crash_events
    response_times,  \* MetricsCollector._response_times
    load_times,      \* MetricsCollector._load_times
    session_start,   \* MetricsCollector._session_start
    mc_ret,          \* what the last call on the collector returned
    mc_hist,         \* history: results restored at construction, record_test_result calls since
    adapters,        \* AdapterRegistry._adapters: (name, class) pairs in insertion order
    reg_ret,         \* what the last call on the registry returned
    reg_hist,        \* history: the register calls since the last clear (name -> class of the
                     \* latest), the names ever registered, the instances constructed
    bench,           \* a SeleniumGridBenchmark: its fields, and the run_benchmark call in progress
    app              \* the launcher (BetaTeam): its fields, its UI thread and its worker thread

adapterVars == <<kind, connected, config, screenshot_dir, airtest_enabled, process,
                 session, playwright, page, crash_count, nlogs, ext, last>>
reportVars == <<issues, issue_ret>>
suiteVars == <<suite_objs, suites, summary>>
metricsVars == <<now, storage_path, storage, metrics, test_results, crash_events,
                 response_times, load_times, session_start, mc_ret, mc_hist>>
registryVars == <<adapters, reg_ret, reg_hist>>
toolVars == <<registryVars, bench, app>>
vars == <<adapterVars, reportVars, suiteVars, metricsVars, toolVars>>

\* what a call on the adapter leaves alone, what add_issue leaves alone, what a
\* call on the collector leaves alone
notAdapter == <<reportVars, suiteVars, metricsVars, toolVars>>
notReport == <<adapterVars, suiteVars, metricsVars, toolVars>>
notMetrics == <<adapterVars, reportVars, suiteVars, toolVars>>

\* ------------------------------------------------------------ dictionaries
\* dict.get(key, default)
Get(d, key, default) == IF key \in DOMAIN d THEN d[key] ELSE default

\* dict.update(other)
Update(d, o) ==
    [k \in DOMAIN d \cup DOMAIN o |-> IF k \in DOMAIN o THEN o[k] ELSE d[k]]

EmptyDict == [k \in {} |-> 0]

\* ------------------------------------------------------- the last call
NoCall ==
    [op |-> "none", ret |-> "-", raised |-> FALSE, was_connected |-> FALSE,
     logged |-> 0, calls |-> {}, fault |-> "none",
     status |-> "-", duration0 |-> FALSE, message |-> "-",
     exc |-> FALSE, check_failed |-> FALSE, crash |-> FALSE, stops |-> <<>>]

Call(op) == [NoCall EXCEPT !.op = op, !.was_connected = connected]

CanLog == nlogs < MaxLogs
CanCreate == Len(ext) < MaxExt

Running(h) == h # 0 /\ ext[h].state = "running"

\* subprocess.Popen(...): a new running process, whose index is the handle
Launched == Append(ext, [type |-> "process", state |-> "running"])

\* terminate(), wait(timeout), kill() on timeout: the state the process ends in
Stopped(h, graceful) ==
    IF ext[h].state # "running" THEN ext
    ELSE [ext EXCEPT ![h].state = IF graceful THEN "terminated" ELSE "killed"]

\* a disconnect that kills at once
StopOrder_KillOnly(h, graceful) == <<"kill">>

\* the calls disconnect makes on the Popen handle, in their order: terminate(),
\* wait(timeout=...), and kill() when the wait timed out (the process was
\* running and did not exit within the timeout: ~graceful)
StopOrder(h, graceful) ==
    IF Running(h) /\ ~graceful THEN <<"terminate", "wait", "kill">>
    ELSE <<"terminate", "wait">>

StopCalls(h, graceful) ==
    IF Running(h) /\ ~graceful THEN {"terminate", "kill"} ELSE {"terminate"}

\* --------------------------------------------------------------- BaseAdapter
BaseAdapter_init ==
    /\ connected = FALSE
    /\ config = EmptyDict

\* --------------------------------------------------------------- GameAdapter
GameOptions ==
    { [screenshot_dir |-> "shots"], [airtest_enabled |-> TRUE],
      [startup_delay |-> -1], [startup_delay |-> 0] }

GameAdapter_configure(o) ==
    /\ kind = "game"
    /\ config' = Update(config, o)
    /\ screenshot_dir' = Get(o, "screenshot_dir", "screenshots")
    /\ airtest_enabled' = Get(o, "airtest_enabled", FALSE)
    /\ last' = [Call("configure") EXCEPT !.ret = "None"]
    /\ UNCHANGED <<notAdapter, kind, connected, process, session, playwright, page,
                   crash_count, nlogs, ext>>

\* time.sleep(x) raises ValueError for a negative x
SleepRaises(x) == x < 0

GameAdapter_connect(target, launch) ==
    /\ kind = "game"
    /\ CanLog
    /\ nlogs' = nlogs + 1
    /\ IF target # "file"
       THEN /\ last' = [Call("connect") EXCEPT !.ret = "False", !.logged = 1,
                                               !.fault = "missing_target"]
            /\ UNCHANGED <<connected, process, ext>>
       ELSE IF launch = "oserror"
       THEN /\ last' = [Call("connect") EXCEPT !.ret = "False", !.logged = 1,
                                               !.fault = "launch_error",
                                               !.calls = {"launch"}]
            /\ UNCHANGED <<connected, process, ext>>
       ELSE /\ CanCreate
            /\ ext' = Launched
            /\ process' = Len(ext')
            /\ connected' = TRUE
            /\ last' = IF SleepRaises(Get(config, "startup_delay", 2))
                       THEN [Call("connect") EXCEPT !.raised = TRUE, !.logged = 1,
                                                    !.calls = {"launch"}]
                       ELSE [Call("connect") EXCEPT !.ret = "True", !.logged = 1,
                                                    !.calls = {"launch"}]
    /\ UNCHANGED <<notAdapter, kind, config, screenshot_dir, airtest_enabled, session,
                   playwright, page, crash_count>>

\* ProcessDisconnect returning early when no process is held
ProcessDisconnect_EarlyReturn(graceful) ==
    /\ CanLog
    /\ nlogs' = nlogs + 1
    /\ IF process # 0
       THEN /\ ext' = Stopped(process, graceful)
            /\ connected' = FALSE
            /\ last' = [Call("disconnect") EXCEPT !.ret = "None", !.logged = 1,
                                                  !.calls = StopCalls(process, graceful),
                                                  !.stops = StopOrder(process, graceful)]
       ELSE /\ ext' = ext
            /\ connected' = connected
            /\ last' = [Call("disconnect") EXCEPT !.ret = "None", !.logged = 1]
    /\ process' = 0

\* disconnect() of the three adapters that hold a Popen handle and no session
ProcessDisconnect(graceful) ==
    /\ CanLog
    /\ nlogs' = nlogs + 1
    /\ IF process # 0
       THEN /\ ext' = Stopped(process, graceful)
            /\ last' = [Call("disconnect") EXCEPT !.ret = "None", !.logged = 1,
                                                  !.calls = StopCalls(process, graceful),
                                                  !.stops = StopOrder(process, graceful)]
       ELSE /\ ext' = ext
            /\ last' = [Call("disconnect") EXCEPT !.ret = "None", !.logged = 1]
    /\ process' = 0
    /\ connected' = FALSE

GameAdapter_disconnect(graceful) ==
    /\ kind = "game"
    /\ ProcessDisconnect(graceful)
    /\ UNCHANGED <<notAdapter, kind, config, screenshot_dir, airtest_enabled, session,
                   playwright, page, crash_count>>

\* GameAdapter.capture_screenshot: None without a screenshot directory, else
\* the path, with one log entry (both the AirTest branch and the fallback log)
GameAdapter_screenshot ==
    IF screenshot_dir = ""
    THEN [ret |-> "None", logged |-> 0, raised |-> FALSE, failed |-> FALSE]
    ELSE [ret |-> "path", logged |-> 1, raised |-> FALSE, failed |-> FALSE]

\* GameAdapter.collect_metrics. psutil is what the import and the process
\* lookup find: "ok", "gone" (NoSuchProcess / AccessDenied, caught) or
\* "missing" (ImportError: the except clause then names psutil.NoSuchProcess
\* with psutil unbound, and that lookup raises out of the handler).
GameAdapter_metrics(psutil) ==
    IF process # 0 /\ psutil = "missing"
    THEN [raised |-> TRUE, telemetry |-> FALSE]
    ELSE [raised |-> FALSE, telemetry |-> process # 0 /\ psutil = "ok"]

\* NotConnectedResult with the elapsed time as the duration
NotConnectedResult_Timed ==
    [Call("run_test") EXCEPT !.ret = "result", !.status = "ERROR",
                             !.message = "not_connected"]

\* the TestResult of run_test when self._connected is false
NotConnectedResult ==
    [Call("run_test") EXCEPT !.ret = "result", !.status = "ERROR",
                             !.duration0 = TRUE, !.message = "not_connected"]

\* the TestResult of the except Exception handler of run_test
ExceptionResult(calls, logged) ==
    [Call("run_test") EXCEPT !.ret = "result", !.status = "ERROR",
                             !.message = "exception", !.exc = TRUE,
                             !.calls = calls, !.logged = logged]

GameAdapter_run_test_result(has_script, script_exists, psutil) ==
    LET airtest == airtest_enabled /\ has_script
        pre == IF airtest THEN {"test_logic"} ELSE {}
        shot == GameAdapter_screenshot
    IN  IF ~connected THEN NotConnectedResult
        ELSE IF airtest /\ ~script_exists
        THEN [Call("run_test") EXCEPT !.ret = "result", !.status = "FAILED",
                                      !.message = "airtest_failed",
                                      !.check_failed = TRUE,
                                      !.calls = pre, !.logged = 1]
        ELSE IF GameAdapter_metrics(psutil).raised
        THEN ExceptionResult(pre \cup {"metrics"}, IF airtest THEN 1 ELSE 0)
        ELSE [Call("run_test") EXCEPT !.ret = "result", !.status = "PASSED",
                                      !.calls = pre \cup {"metrics", "screenshot"},
                                      !.logged = (IF airtest THEN 1 ELSE 0) + shot.logged]

GameAdapter_run_test(has_script, script_exists, psutil) ==
    /\ kind = "game"
    /\ CanLog
    /\ last' = GameAdapter_run_test_result(has_script, script_exists, psutil)
    /\ nlogs' = nlogs + last'.logged
    /\ UNCHANGED <<notAdapter, kind, connected, config, screenshot_dir, airtest_enabled, process,
                   session, playwright, page, crash_count, ext>>

GameAdapter_capture_screenshot ==
    /\ kind = "game"
    /\ CanLog
    /\ last' = [Call("capture_screenshot") EXCEPT
                    !.ret = GameAdapter_screenshot.ret,
                    !.logged = GameAdapter_screenshot.logged,
                    !.calls = {"screenshot"}]
    /\ nlogs' = nlogs + last'.logged
    /\ UNCHANGED <<notAdapter, kind, connected, config, screenshot_dir, airtest_enabled, process,
                   session, playwright, page, crash_count, ext>>

GameAdapter_collect_metrics(psutil) ==
    /\ kind = "game"
    /\ last' = IF GameAdapter_metrics(psutil).raised
               THEN [Call("collect_metrics") EXCEPT !.raised = TRUE, !.calls = {"metrics"}]
               ELSE [Call("collect_metrics") EXCEPT !.ret = "metrics", !.calls = {"metrics"}]
    /\ UNCHANGED <<notAdapter, kind, connected, config, screenshot_dir, airtest_enabled, process,
                   session, playwright, page, crash_count, nlogs, ext>>

\* ---------------------------------------------------------------- WebAdapter
WebOptions == { [use_playwright |-> FALSE], [use_playwright |-> TRUE] }
VSTOptions == { [daw_path |-> "daw"], [daw_path |-> "nodaw"],
                [startup_delay |-> -1], [startup_delay |-> 0] }
WindowsOptions == { [use_winium |-> TRUE], [startup_timeout |-> -1],
                    [startup_timeout |-> 10] }

\* configure() of WebAdapter, VSTAdapter and WindowsAdapter: BaseAdapter.configure,
\* then display settings (_browser_type, _baseline_dir, _daw_type) nothing here reads
BaseAdapter_configure(o) ==
    /\ \/ kind = "web" /\ o \in WebOptions
       \/ kind = "vst" /\ o \in VSTOptions
       \/ kind = "windows" /\ o \in WindowsOptions
    /\ config' = Update(config, o)
    /\ last' = [Call("configure") EXCEPT !.ret = "None"]
    /\ UNCHANGED <<notAdapter, kind, connected, screenshot_dir, airtest_enabled, process, session,
                   playwright, page, crash_count, nlogs, ext>>

Opened(type) == [type |-> type, state |-> "open"]

\* WebAdapter.connect. fail is the step that raises: "import" (the library is
\* not installed), "start" (sync_playwright().start() / the webdriver
\* constructor), "launch" (browser launch or new_page), "navigate" (goto / get:
\* the target cannot be reached), or "none". Both helpers catch every exception.
WebAdapter_connect(fail) ==
    /\ kind = "web"
    /\ CanLog
    /\ nlogs' = nlogs + 1
    /\ LET dep == [Call("connect") EXCEPT !.ret = "False", !.logged = 1,
                                          !.fault = "missing_dependency"]
           unreachable == [Call("connect") EXCEPT !.ret = "False", !.logged = 1,
                                                  !.fault = "missing_target",
                                                  !.calls = {"launch"}]
           ok == [Call("connect") EXCEPT !.ret = "True", !.logged = 1,
                                         !.calls = {"launch"}]
       IN
       IF Get(config, "use_playwright", TRUE)
       THEN \* _connect_playwright
            IF fail \in {"import", "start"}
            THEN /\ last' = dep
                 /\ UNCHANGED <<connected, playwright, page, session, ext>>
            ELSE IF fail = "launch"
            THEN /\ CanCreate
                 /\ ext' = Append(ext, Opened("playwright"))
                 /\ playwright' = Len(ext')
                 /\ last' = [dep EXCEPT !.calls = {"launch"}]
                 /\ UNCHANGED <<connected, page, session>>
            ELSE /\ CanCreate
                 /\ ext' = ext \o <<Opened("playwright"), Opened("page")>>
                 /\ playwright' = Len(ext) + 1
                 /\ page' = Len(ext) + 2
                 /\ connected' = (fail = "none" \/ connected)
                 /\ last' = IF fail = "none" THEN ok ELSE unreachable
                 /\ UNCHANGED session
       ELSE \* _connect_selenium
            IF fail \in {"import", "start", "launch"}
            THEN /\ last' = dep
                 /\ UNCHANGED <<connected, playwright, page, session, ext>>
            ELSE /\ CanCreate
                 /\ ext' = Append(ext, Opened("driver"))
                 /\ session' = Len(ext')
                 /\ connected' = (fail = "none" \/ connected)
                 /\ last' = IF fail = "none" THEN ok ELSE unreachable
                 /\ UNCHANGED <<playwright, page>>
    /\ UNCHANGED <<notAdapter, kind, config, screenshot_dir, airtest_enabled, process, crash_count>>

\* close() / stop() / quit() on each handle that is set; an exception of the
\* call is swallowed and the handle is cleared either way
Closed(e, handles) ==
    [i \in DOMAIN e |-> IF i \in handles THEN [e[i] EXCEPT !.state = "closed"] ELSE e[i]]

WebAdapter_disconnect ==
    /\ kind = "web"
    /\ CanLog
    /\ nlogs' = nlogs + 1
    /\ ext' = Closed(ext, {page, playwright, session} \ {0})
    /\ page' = 0
    /\ playwright' = 0
    /\ session' = 0
    /\ connected' = FALSE
    /\ last' = [Call("disconnect") EXCEPT !.ret = "None", !.logged = 1,
                    !.calls = (IF page # 0 THEN {"page.close"} ELSE {})
                         \cup (IF playwright # 0 THEN {"playwright.stop"} ELSE {})
                         \cup (IF session # 0 THEN {"driver.quit"} ELSE {})]
    /\ UNCHANGED <<notAdapter, kind, config, screenshot_dir, airtest_enabled, process, crash_count>>

\* capture_screenshot of WebAdapter / WindowsAdapter (has_handle: a page, driver
\* or session is held) and of VSTAdapter (whose session is never set). shot is
\* what the environment does: "ok", "fail" (the capture call raises) or
\* "mkdir_raise" (os.makedirs raises, outside the try).
SessionScreenshot(has_handle, shot) ==
    IF shot = "mkdir_raise"
    THEN [ret |-> "-", logged |-> 0, raised |-> TRUE, failed |-> TRUE]
    ELSE IF has_handle /\ shot = "fail"
    THEN [ret |-> "path", logged |-> 1, raised |-> FALSE, failed |-> TRUE]
    ELSE [ret |-> "path", logged |-> IF has_handle THEN 1 ELSE 0,
          raised |-> FALSE, failed |-> FALSE]

WebAdapter_screenshot(shot) == SessionScreenshot(page # 0 \/ session # 0, shot)

\* the outcome of the test helper: "pass" / "fail" (it returns True / False),
\* "caught" (it catches an exception of the driver, logs it and returns False),
\* "raise" (an exception leaves the helper)
StepSuccess(step) == step = "pass"
StepLogged(step) == IF step \in {"pass", "caught"} THEN 1 ELSE 0

\* FinishedResult with the crash check after the test dropped
FinishedResult_IgnoresCrash(step_ok, crash, shot, calls, logged) ==
    IF shot.raised
    THEN [Call("run_test") EXCEPT !.ret = "result", !.status = "ERROR",
             !.message = "exception", !.exc = TRUE,
             !.check_failed = ~step_ok, !.crash = crash,
             !.calls = calls \cup {"metrics", "screenshot"}, !.logged = logged]
    ELSE [Call("run_test") EXCEPT !.ret = "result",
             !.status = IF step_ok THEN "PASSED" ELSE "FAILED",
             !.check_failed = ~step_ok, !.crash = crash,
             !.calls = calls \cup {"metrics", "screenshot"},
             !.logged = logged + shot.logged]

\* the tail shared by the run_test of WebAdapter, VSTAdapter and WindowsAdapter.
\* step_ok is what the test helper returned; crash is WindowsAdapter's check
\* after the test (success = False when the process has exited; FALSE for the
\* adapters that make no such check). Then collect_metrics (which swallows
\* every failure) and capture_screenshot run, and the status is PASSED if
\* success else FAILED; an exception of capture_screenshot reaches the handler.
FinishedResult(step_ok, crash, shot, calls, logged) ==
    LET success == step_ok /\ ~crash
    IN  IF shot.raised
        THEN [ExceptionResult(calls \cup {"metrics", "screenshot"}, logged)
                 EXCEPT !.check_failed = ~step_ok, !.crash = crash]
        ELSE [Call("run_test") EXCEPT !.ret = "result",
                 !.status = IF success THEN "PASSED" ELSE "FAILED",
                 !.check_failed = ~step_ok, !.crash = crash,
                 !.calls = calls \cup {"metrics", "screenshot"},
                 !.logged = logged + shot.logged]

WebAdapter_run_test_result(step, shot) ==
    IF ~connected THEN NotConnectedResult
    ELSE IF step = "raise" THEN ExceptionResult({"test_logic"}, 0)
    ELSE FinishedResult(StepSuccess(step), FALSE, WebAdapter_screenshot(shot),
                        {"test_logic"}, StepLogged(step))

WebAdapter_run_test(step, shot) ==
    /\ kind = "web"
    /\ CanLog
    /\ last' = WebAdapter_run_test_result(step, shot)
    /\ nlogs' = nlogs + last'.logged
    /\ UNCHANGED <<notAdapter, kind, connected, config, screenshot_dir, airtest_enabled, process,
                   session, playwright, page, crash_count, ext>>

\* ---------------------------------------------------------------- VSTAdapter
\* target.ext: "plugin" (.vst3 .component .au .clap .dll), "project" (.rpp .als
\* .logicx .bwproject) or "other"; target.exists: os.path.exists(target)
VSTTargets == [ext : {"plugin", "project", "other"}, exists : BOOLEAN]

\* os.path.exists(daw_path) for the configured DAW executable
DawFound == Get(config, "daw_path", "") = "daw"

VSTAdapter_connect(target, launch) ==
    /\ kind = "vst"
    /\ CanLog
    /\ nlogs' = nlogs + 1
    /\ LET miss == IF target.exists THEN "none" ELSE "missing_target"
           refused(fault) == [Call("connect") EXCEPT !.ret = "False", !.logged = 1,
                                                     !.fault = fault]
       IN
       IF target.ext = "plugin"
       THEN /\ connected' = (target.exists \/ connected)
            /\ last' = IF target.exists
                       THEN [Call("connect") EXCEPT !.ret = "True", !.logged = 1]
                       ELSE refused("missing_target")
            /\ UNCHANGED <<process, ext>>
       ELSE IF target.ext = "other"
       THEN /\ last' = refused(IF target.exists THEN "unsupported" ELSE "missing_target")
            /\ UNCHANGED <<connected, process, ext>>
       ELSE \* _open_daw_project: only the DAW executable is looked up
            IF ~DawFound
            THEN /\ last' = refused("missing_dependency")
                 /\ UNCHANGED <<connected, process, ext>>
            ELSE IF launch = "oserror"
            THEN /\ last' = [refused("launch_error") EXCEPT !.calls = {"launch"}]
                 /\ UNCHANGED <<connected, process, ext>>
            ELSE /\ CanCreate
                 /\ ext' = Launched
                 /\ process' = Len(ext')
                 /\ connected' = TRUE
                 /\ last' = IF SleepRaises(Get(config, "startup_delay", 5))
                            THEN [Call("connect") EXCEPT !.raised = TRUE, !.logged = 1,
                                       !.fault = miss, !.calls = {"launch"}]
                            ELSE [Call("connect") EXCEPT !.ret = "True", !.logged = 1,
                                       !.fault = miss, !.calls = {"launch"}]
    /\ UNCHANGED <<notAdapter, kind, config, screenshot_dir, airtest_enabled, session,
                   playwright, page, crash_count>>

VSTAdapter_disconnect(graceful) ==
    /\ kind = "vst"
    /\ ProcessDisconnect(graceful)
    /\ UNCHANGED <<notAdapter, kind, config, screenshot_dir, airtest_enabled, session,
                   playwright, page, crash_count>>

\* VSTAdapter._winappdriver_session is never assigned: capture_screenshot
\* always takes the branch without a session
VSTAdapter_screenshot(shot) ==
    IF shot = "mkdir_raise" THEN SessionScreenshot(FALSE, shot)
    ELSE [ret |-> "path", logged |-> 1, raised |-> FALSE, failed |-> FALSE]

VSTAdapter_run_test_result(step, shot) ==
    IF ~connected THEN NotConnectedResult
    ELSE IF step = "raise" THEN ExceptionResult({"test_logic"}, 0)
    ELSE FinishedResult(StepSuccess(step), FALSE, VSTAdapter_screenshot(shot),
                        {"test_logic"}, 1)

VSTAdapter_run_test(step, shot) ==
    /\ kind = "vst"
    /\ step # "caught"
    /\ CanLog
    /\ last' = VSTAdapter_run_test_result(step, shot)
    /\ nlogs' = nlogs + last'.logged
    /\ UNCHANGED <<notAdapter, kind, connected, config, screenshot_dir, airtest_enabled, process,
                   session, playwright, page, crash_count, ext>>

\* ------------------------------------------------------------ WindowsAdapter
\* connect: target is "file", "dir" or "missing"; launch is "ok" or "oserror"
\* (Popen raises); startup_crash: the process has exited when it is polled
\* after the start-up sleep; automation: "ok" or "fail" (the WinAppDriver /
\* Winium session cannot be created; the helper logs it and returns False,
\* and connect does not read what the helper returns)
WindowsAdapter_connect(target, launch, startup_crash, automation) ==
    /\ kind = "windows"
    /\ CanLog
    /\ crash_count < MaxCrashes
    /\ IF target # "file" \/ launch = "oserror"
       THEN /\ last' = [Call("connect") EXCEPT !.ret = "False", !.logged = 1,
                            !.fault = IF target # "file" THEN "missing_target"
                                      ELSE "launch_error",
                            !.calls = IF target # "file" THEN {} ELSE {"launch"}]
            /\ UNCHANGED <<connected, process, session, crash_count, ext>>
       ELSE /\ CanCreate
            /\ process' = Len(ext) + 1
            /\ IF SleepRaises(Get(config, "startup_timeout", 10))
               THEN /\ ext' = Launched
                    /\ last' = [Call("connect") EXCEPT !.raised = TRUE,
                                                       !.calls = {"launch"}]
                    /\ UNCHANGED <<connected, session, crash_count>>
               ELSE IF startup_crash
               THEN /\ ext' = Append(ext, [type |-> "process", state |-> "exited"])
                    /\ crash_count' = crash_count + 1
                    /\ last' = [Call("connect") EXCEPT !.ret = "False", !.logged = 1,
                                    !.fault = "launch_error", !.crash = TRUE,
                                    !.calls = {"launch", "poll"}]
                    /\ UNCHANGED <<connected, session>>
               ELSE /\ ext' = IF automation = "ok"
                              THEN Launched \o <<Opened("session")>>
                              ELSE Launched
                    /\ session' = IF automation = "ok" THEN Len(ext) + 2 ELSE session
                    /\ connected' = TRUE
                    /\ last' = [Call("connect") EXCEPT !.ret = "True", !.logged = 2,
                                    !.fault = IF automation = "ok" THEN "none"
                                              ELSE "missing_dependency",
                                    !.calls = {"launch", "poll"}]
                    /\ UNCHANGED crash_count
    /\ nlogs' = nlogs + last'.logged
    /\ UNCHANGED <<notAdapter, kind, config, screenshot_dir, airtest_enabled, playwright, page>>

WindowsAdapter_disconnect(graceful) ==
    /\ kind = "windows"
    /\ CanLog
    /\ nlogs' = nlogs + 1
    /\ ext' = IF process # 0
              THEN Closed(Stopped(process, graceful), {session} \ {0})
              ELSE Closed(ext, {session} \ {0})
    /\ session' = 0
    /\ process' = 0
    /\ connected' = FALSE
    /\ last' = [Call("disconnect") EXCEPT !.ret = "None", !.logged = 1,
                    !.calls = (IF session # 0 THEN {"session.quit"} ELSE {})
                         \cup (IF process # 0 THEN StopCalls(process, graceful) ELSE {}),
                    !.stops = IF process # 0 THEN StopOrder(process, graceful) ELSE <<>>]
    /\ UNCHANGED <<notAdapter, kind, config, screenshot_dir, airtest_enabled, playwright, page,
                   crash_count>>

WindowsAdapter_screenshot(shot) == SessionScreenshot(session # 0, shot)

\* self._app_process and self._app_process.poll() is not None
Exited(h, e) == h # 0 /\ e[h].state # "running"

\* the process exits while the test helper runs
CrashedDuring(crash_during) ==
    IF crash_during /\ Running(process)
    THEN [ext EXCEPT ![process].state = "exited"] ELSE ext

WindowsAdapter_run_test_result(step, crash_during, shot) ==
    IF ~connected THEN NotConnectedResult
    ELSE IF Exited(process, ext)
    THEN [Call("run_test") EXCEPT !.ret = "result", !.status = "ERROR",
                                  !.message = "crashed", !.crash = TRUE,
                                  !.calls = {"poll"}]
    ELSE IF step = "raise" THEN ExceptionResult({"poll", "test_logic"}, 0)
    ELSE LET crashed == Exited(process, CrashedDuring(crash_during))
         IN  FinishedResult(StepSuccess(step), crashed,
                            WindowsAdapter_screenshot(shot),
                            {"poll", "test_logic"}, StepLogged(step))

\* the crashes run_test counts: one at the check before the test, one at the
\* check after it
WindowsAdapter_run_test_crashes(step, crash_during) ==
    IF ~connected THEN 0
    ELSE IF Exited(process, ext) THEN 1
    ELSE IF step # "raise" /\ Exited(process, CrashedDuring(crash_during)) THEN 1
    ELSE 0

\* WindowsAdapter_run_test marking the adapter disconnected once a crash is seen
WindowsAdapter_run_test_DropsOnCrash(step, crash_during, shot) ==
    /\ kind = "windows"
    /\ CanLog
    /\ crash_count < MaxCrashes
    /\ last' = WindowsAdapter_run_test_result(step, crash_during, shot)
    /\ nlogs' = nlogs + last'.logged
    /\ crash_count' = crash_count + WindowsAdapter_run_test_crashes(step, crash_during)
    /\ ext' = IF connected /\ ~Exited(process, ext) THEN CrashedDuring(crash_during)
              ELSE ext
    /\ connected' = (connected /\ ~last'.crash)
    /\ UNCHANGED <<notAdapter, kind, config, screenshot_dir, airtest_enabled, process,
                   session, playwright, page>>

WindowsAdapter_run_test(step, crash_during, shot) ==
    /\ kind = "windows"
    /\ CanLog
    /\ crash_count < MaxCrashes
    /\ last' = WindowsAdapter_run_test_result(step, crash_during, shot)
    /\ nlogs' = nlogs + last'.logged
    /\ crash_count' = crash_count + WindowsAdapter_run_test_crashes(step, crash_during)
    /\ ext' = IF connected /\ ~Exited(process, ext) THEN CrashedDuring(crash_during)
              ELSE ext
    /\ UNCHANGED <<notAdapter, kind, connected, config, screenshot_dir, airtest_enabled, process,
                   session, playwright, page>>

\* ------------------------------------- capture_screenshot / collect_metrics
\* capture_screenshot called directly on a Web, VST or Windows adapter
Adapter_capture_screenshot(shot) ==
    /\ kind # "game"
    /\ CanLog
    /\ LET r == CASE kind = "web" -> WebAdapter_screenshot(shot)
                  [] kind = "vst" -> VSTAdapter_screenshot(shot)
                  [] OTHER -> WindowsAdapter_screenshot(shot)
       IN  last' = [Call("capture_screenshot") EXCEPT
                        !.ret = r.ret, !.raised = r.raised, !.logged = r.logged,
                        !.check_failed = r.failed, !.calls = {"screenshot"}]
    /\ nlogs' = nlogs + last'.logged
    /\ UNCHANGED <<notAdapter, kind, connected, config, screenshot_dir, airtest_enabled, process,
                   session, playwright, page, crash_count, ext>>

\* collect_metrics called directly on a Web, VST or Windows adapter: the
\* telemetry read sits in a try that catches Exception; WebAdapter logs a read
\* that failed (telemetry = FALSE), the other two pass
Adapter_collect_metrics(telemetry) ==
    /\ kind # "game"
    /\ CanLog
    /\ last' = [Call("collect_metrics") EXCEPT
                    !.ret = "metrics", !.calls = {"metrics"},
                    !.logged = IF kind = "web" /\ ~telemetry
                                  /\ (page # 0 \/ session # 0) THEN 1 ELSE 0]
    /\ nlogs' = nlogs + last'.logged
    /\ UNCHANGED <<notAdapter, kind, connected, config, screenshot_dir, airtest_enabled, process,
                   session, playwright, page, crash_count, ext>>

\* BaseAdapter.cleanup, inherited by the four adapters: disconnect() when
\* self._connected, else nothing (graceful is disconnect's input)
BaseAdapter_cleanup(graceful) ==
    IF connected
    THEN \/ GameAdapter_disconnect(graceful)
         \/ WebAdapter_disconnect
         \/ VSTAdapter_disconnect(graceful)
         \/ WindowsAdapter_disconnect(graceful)
    ELSE /\ last' = [Call("cleanup") EXCEPT !.ret = "None"]
         /\ UNCHANGED <<notAdapter, kind, connected, config, screenshot_dir, airtest_enabled,
                        process, session, playwright, page, crash_count, nlogs, ext>>

\* ---------------------------------------------------------------- environment
\* a launched process exits on its own (the target crashes)
ProcessExits(h) ==
    /\ h \in DOMAIN ext
    /\ ext[h].type = "process"
    /\ ext[h].state = "running"
    /\ ext' = [ext EXCEPT ![h].state = "exited"]
    /\ UNCHANGED <<notAdapter, kind, connected, config, screenshot_dir, airtest_enabled, process,
                   session, playwright, page, crash_count, nlogs, last>>

\* ------------------------------------------------------------ ReportGenerator
\* A title is a Python str, modelled as the sequence of its characters.
Title_LoginFailed ==
    <<"L", "o", "g", "i", "n", " ", "f", "a", "i", "l", "e", "d">>
Title_LoginFailedAgain ==
    <<"l", "o", "g", "i", "n", " ", "F", "A", "I", "L", "E", "D", " ",
      "a", "g", "a", "i", "n">>
Title_Unrelated ==
    <<"T", "o", "t", "a", "l", "l", "y", " ", "u", "n", "r", "e", "l", "a", "t", "e", "d",
      " ", "b", "u", "g">>
Title_Login == <<" ", "L", "O", "G", "I", "N", " ">>
Title_Crash == <<"C", "r", "a", "s", "h">>
Title_Blank == <<" ">>

Titles == {Title_LoginFailed, Title_LoginFailedAgain, Title_Unrelated,
           Title_Login, Title_Crash, Title_Blank}
\* the severities add_issue is called with: the default and the one
\* generate_summary counts
Severities == {"medium", "critical"}
\* test_name: "None" stands for None; "" is the empty string
TestNames == {"None", "", "test_login"}

\* str.lower() on one character
LowerChar(c) ==
    CASE c = "A" -> "a" [] c = "C" -> "c" [] c = "D" -> "d" [] c = "E" -> "e"
      [] c = "F" -> "f" [] c = "G" -> "g" [] c = "I" -> "i" [] c = "L" -> "l"
      [] c = "N" -> "n" [] c = "O" -> "o" [] c = "T" -> "t" [] c = "U" -> "u"
      [] OTHER -> c

\* str.lower()
Lower(t) == [i \in DOMAIN t |-> LowerChar(t[i])]

\* str.strip(): the title without its leading and trailing white space
Strip(t) ==
    LET ink == {i \in DOMAIN t : t[i] # " "}
    IN  IF ink = {} THEN <<>>
        ELSE LET lo == CHOOSE i \in ink : \A j \in ink : i <= j
                 hi == CHOOSE i \in ink : \A j \in ink : j <= i
             IN  SubSeq(t, lo, hi)

\* a in b, for Python strings
In(a, b) ==
    \E k \in 0..(Len(b) - Len(a)) : SubSeq(b, k + 1, k + Len(a)) = a

\* _is_duplicate comparing the titles without lower-casing them
ReportGenerator_is_duplicate_CaseSensitive(title1, title2) ==
    LET t1 == Strip(title1)
        t2 == Strip(title2)
    IN  t1 = t2 \/ In(t1, t2) \/ In(t2, t1)

\* ReportGenerator._is_duplicate
ReportGenerator_is_duplicate(title1, title2) ==
    LET t1 == Strip(Lower(title1))
        t2 == Strip(Lower(title2))
    IN  t1 = t2 \/ In(t1, t2) \/ In(t2, t1)

\* _is_duplicate on every pair of the titles add_issue is called with, as an
\* enumerated set
Duplicates ==
    {q : q \in {p \in Titles \X Titles : ReportGenerator_is_duplicate(p[1], p[2])}}

ReportGenerator_init ==
    /\ issues = <<>>
    /\ issue_ret = [calls |-> 0, id |-> 0, merged |-> FALSE, title |-> <<>>,
                    severity |-> "-", test_name |-> "None", named |-> 0]

\* the id of a new issue: f"ISSUE-{len(self._issues) + 1}", kept as its number
ReportGenerator_issue_id == Len(issues) + 1

\* if test_name: a test name that is None or empty is not recorded
Given(test_name) == test_name \notin {"None", ""}

\* the description, the screenshot and the clock reading of an add_issue call
\* are kept as the number of the call: every call brings its own
ReportNumber == issue_ret.calls + 1

\* the loop of add_issue scanning the issues from the newest to the oldest
FirstDuplicate_Reversed(title) ==
    LET hits == {i \in DOMAIN issues : <<title, issues[i].title>> \in Duplicates}
    IN  IF hits = {} THEN 0 ELSE CHOOSE i \in hits : \A j \in hits : j <= i

\* a new record that starts with no occurrence counted
NewIssue_Uncounted(title, severity, test_name) ==
    [id |-> ReportGenerator_issue_id, title |-> title, severity |-> severity,
     tests |-> IF Given(test_name) THEN <<test_name>> ELSE <<>>,
     occurrences |-> 0, description |-> ReportNumber, screenshot |-> ReportNumber,
     created |-> ReportNumber]

\* the record add_issue appends when no existing issue matches
NewIssue(title, severity, test_name) ==
    [id |-> ReportGenerator_issue_id, title |-> title, severity |-> severity,
     tests |-> IF Given(test_name) THEN <<test_name>> ELSE <<>>,
     occurrences |-> 1, description |-> ReportNumber, screenshot |-> ReportNumber,
     created |-> ReportNumber]

\* the index of the first existing issue the loop of add_issue stops at, 0 if none
FirstDuplicate(title) ==
    LET hits == {i \in DOMAIN issues : <<title, issues[i].title>> \in Duplicates}
    IN  IF hits = {} THEN 0 ELSE CHOOSE i \in hits : \A j \in hits : i <= j

\* a merge that also takes the description, screenshot and time of the new report
MergedIssue_Refreshed(existing, test_name) ==
    [existing EXCEPT
        !.occurrences = @ + 1,
        !.tests = IF Given(test_name) THEN Append(@, test_name) ELSE @,
        !.description = ReportNumber, !.screenshot = ReportNumber,
        !.created = ReportNumber]

\* a merge that records the test name whether or not one was given
MergedIssue_AnyTestName(existing, test_name) ==
    [existing EXCEPT !.occurrences = @ + 1, !.tests = Append(@, test_name)]

\* what add_issue makes of the existing issue its report is merged into
MergedIssue(existing, test_name) ==
    [existing EXCEPT
        !.occurrences = @ + 1,
        !.tests = IF Given(test_name) THEN Append(@, test_name) ELSE @]

ReportGenerator_add_issue(title, severity, test_name) ==
    /\ issue_ret.calls < MaxAddIssue
    /\ LET m == FirstDuplicate(title)
       IN  IF m # 0
           THEN /\ issues' = [issues EXCEPT ![m] = MergedIssue(@, test_name)]
                /\ issue_ret' = [calls |-> issue_ret.calls + 1, id |-> issues[m].id,
                                 merged |-> TRUE, title |-> title,
                                 severity |-> severity, test_name |-> test_name,
                                 named |-> issue_ret.named
                                               + IF Given(test_name) THEN 1 ELSE 0]
           ELSE /\ issues' = Append(issues, NewIssue(title, severity, test_name))
                /\ issue_ret' = [calls |-> issue_ret.calls + 1,
                                 id |-> ReportGenerator_issue_id,
                                 merged |-> FALSE, title |-> title,
                                 severity |-> severity, test_name |-> test_name,
                                 named |-> issue_ret.named
                                               + IF Given(test_name) THEN 1 ELSE 0]
    /\ UNCHANGED notReport

ReportNext ==
    \E t \in Titles, s \in Severities, n \in TestNames : ReportGenerator_add_issue(t, s, n)

\* ---------------------------------------------------- the adapter's life
Kinds == {"game", "web", "vst", "windows"}
Paths == {"file", "dir", "missing"}
Launches == {"ok", "oserror"}
Steps == {"pass", "fail", "caught", "raise"}
Shots == {"ok", "fail", "mkdir_raise"}
Psutil == {"ok", "gone", "missing"}
WebFailures == {"none", "import", "start", "launch", "navigate"}

AdapterInit ==
    /\ kind \in Kinds
    /\ BaseAdapter_init
    /\ screenshot_dir = ""
    /\ airtest_enabled = FALSE
    /\ process = 0
    /\ session = 0
    /\ playwright = 0
    /\ page = 0
    /\ crash_count = 0
    /\ nlogs = 0
    /\ ext = <<>>
    /\ last = NoCall

AdapterNext ==
    \/ \E o \in GameOptions : GameAdapter_configure(o)
    \/ \E t \in Paths, l \in Launches : GameAdapter_connect(t, l)
    \/ \E g \in BOOLEAN : GameAdapter_disconnect(g)
    \/ \E hs \in BOOLEAN, se \in BOOLEAN, p \in Psutil : GameAdapter_run_test(hs, se, p)
    \/ GameAdapter_capture_screenshot
    \/ \E p \in Psutil : GameAdapter_collect_metrics(p)
    \/ \E o \in WebOptions \cup VSTOptions \cup WindowsOptions : BaseAdapter_configure(o)
    \/ \E f \in WebFailures : WebAdapter_connect(f)
    \/ WebAdapter_disconnect
    \/ \E st \in Steps, sh \in Shots : WebAdapter_run_test(st, sh)
    \/ \E t \in VSTTargets, l \in Launches : VSTAdapter_connect(t, l)
    \/ \E g \in BOOLEAN : VSTAdapter_disconnect(g)
    \/ \E st \in Steps, sh \in Shots : VSTAdapter_run_test(st, sh)
    \/ \E t \in Paths, l \in Launches, c \in BOOLEAN, a \in {"ok", "fail"} :
           WindowsAdapter_connect(t, l, c, a)
    \/ \E g \in BOOLEAN : WindowsAdapter_disconnect(g)
    \/ \E st \in Steps, c \in BOOLEAN, sh \in Shots : WindowsAdapter_run_test(st, c, sh)
    \/ \E sh \in Shots : Adapter_capture_screenshot(sh)
    \/ \E t \in BOOLEAN : Adapter_collect_metrics(t)
    \/ \E g \in BOOLEAN : BaseAdapter_cleanup(g)
    \/ \E h \in DOMAIN ext : ProcessExits(h)

\* ========================================================= MetricsCollector
\* ------------------------------------------------------------ exact numbers
\* a Python float that is a quotient of integers, kept exact: num / den, den > 0
Q(n, d) == [num |-> n, den |-> d]
QInt(n) == Q(n, 1)
QLeq(a, b) == a.num * b.den <= b.num * a.den
QEq(a, b) == a.num * b.den = b.num * a.den
QAdd(a, b) == Q(a.num * b.den + b.num * a.den, a.den * b.den)
QSub(a, b) == Q(a.num * b.den - b.num * a.den, a.den * b.den)
QMul(a, b) == Q(a.num * b.num, a.den * b.den)
\* x / y for integers x and y > 0
QDiv(x, y) == Q(x, y)
\* min(a, b)
QMin(a, b) == IF QLeq(b, a) THEN b ELSE a

\* sum(s)
RECURSIVE SumSeq(_)
SumSeq(s) == IF s = <<>> THEN 0 ELSE s[1] + SumSeq(Tail(s))

\* sum(results) for a list of bool: the number of True
Passes(results) == Cardinality({i \in DOMAIN results : results[i]})

\* sum(len(results) for results in self._test_results.values())
TotalResults(tr) == SumSeq([i \in DOMAIN tr |-> Len(tr[i].results)])
\* sum(sum(results) for results in self._test_results.values())
TotalPassed(tr) == SumSeq([i \in DOMAIN tr |-> Passes(tr[i].results)])

\* ------------------------------------------------------------ the snapshot
\* what save() writes: the dictionary that json.dump serializes
Snapshot ==
    [session_start |-> session_start, metrics |-> metrics,
     test_results |-> test_results, crash_events |-> crash_events,
     response_times |-> response_times, load_times |-> load_times]

EmptyData ==
    [session_start |-> 0, metrics |-> <<>>, test_results |-> <<>>,
     crash_events |-> <<>>, response_times |-> <<>>, load_times |-> <<>>]

\* the file at storage_path. json: "object" (a JSON object), "invalid" (not
\* JSON), "array" (valid JSON that is no object). bad_metric = k > 0: the k-th
\* metric record lacks a key. bad_crash = k > 0: the k-th crash event is no
\* ISO timestamp.
File(data) ==
    [exists |-> TRUE, json |-> "object", data |-> data, bad_metric |-> 0, bad_crash |-> 0]
MissingFile == [File(EmptyData) EXCEPT !.exists = FALSE]

\* a snapshot an earlier session saved
ValidData ==
    [session_start |-> 0, metrics |-> <<"m", "m">>,
     test_results |-> << [name |-> "a", results |-> <<TRUE, FALSE>>] >>,
     crash_events |-> <<0>>, response_times |-> <<100>>, load_times |-> <<>>]

\* files that were not written by save() as it stands
CorruptFiles ==
    { [File(EmptyData) EXCEPT !.json = "invalid"],
      [File(EmptyData) EXCEPT !.json = "array"],
      [File(ValidData) EXCEPT !.bad_metric = 2],
      [File(ValidData) EXCEPT !.bad_crash = 1] }

\* _load_history on an existing file: what the collector holds afterwards,
\* and whether an exception leaves the method
LoadHistory(file) ==
    LET d == file.data
        empty == [raised |-> FALSE, metrics |-> <<>>, test_results |-> <<>>,
                  crash_events |-> <<>>, response_times |-> <<>>, load_times |-> <<>>]
    IN  IF ~file.exists THEN empty
        ELSE IF file.json = "invalid" THEN empty               \* JSONDecodeError, caught
        ELSE IF file.json = "array"
        THEN [empty EXCEPT !.raised = TRUE]                     \* data.get: AttributeError
        ELSE IF file.bad_metric \in DOMAIN d.metrics           \* m["..."]: KeyError, caught
        THEN [empty EXCEPT !.metrics = SubSeq(d.metrics, 1, file.bad_metric - 1)]
        ELSE IF file.bad_crash \in DOMAIN d.crash_events       \* fromisoformat: ValueError
        THEN [empty EXCEPT !.raised = TRUE,
                           !.metrics = d.metrics,
                           !.test_results = d.test_results,
                           !.crash_events = SubSeq(d.crash_events, 1, file.bad_crash - 1)]
        ELSE [raised |-> FALSE, metrics |-> d.metrics, test_results |-> d.test_results,
              crash_events |-> d.crash_events, response_times |-> d.response_times,
              load_times |-> d.load_times]

\* MetricsCollector.__init__(storage_path): the fields of the new object
Constructed(path, file) ==
    IF path THEN LoadHistory(file) ELSE LoadHistory(MissingFile)

NoRet == [op |-> "none"]
NoHist == [restored |-> 0, calls |-> 0]

\* a collector just constructed at time 0, on one of the given files
MetricsCollector_init(paths, files) ==
    /\ now = 0
    /\ storage_path \in paths
    /\ storage \in files
    /\ LET c == Constructed(storage_path, storage)
       IN  /\ ~c.raised
           /\ metrics = c.metrics
           /\ test_results = c.test_results
           /\ crash_events = c.crash_events
           /\ response_times = c.response_times
           /\ load_times = c.load_times
           /\ mc_hist = [NoHist EXCEPT !.restored = TotalResults(c.test_results)]
    /\ session_start = now
    /\ mc_ret = NoRet

\* ------------------------------------------------------------ recording
\* Recorded keeping only the latest result of a name
Recorded_LatestOnly(tr, test_name, passed) ==
    IF \E i \in DOMAIN tr : tr[i].name = test_name
    THEN [i \in DOMAIN tr |->
             IF tr[i].name = test_name
             THEN [tr[i] EXCEPT !.results = <<passed>>] ELSE tr[i]]
    ELSE Append(tr, [name |-> test_name, results |-> <<passed>>])

\* Recorded putting the new result ahead of the name's earlier ones
Recorded_Prepended(tr, test_name, passed) ==
    IF \E i \in DOMAIN tr : tr[i].name = test_name
    THEN [i \in DOMAIN tr |->
             IF tr[i].name = test_name
             THEN [tr[i] EXCEPT !.results = <<passed>> \o @] ELSE tr[i]]
    ELSE Append(tr, [name |-> test_name, results |-> <<passed>>])

\* self._test_results[test_name].append(passed) on the defaultdict(list): a new
\* name is added after the names already there
Recorded(tr, test_name, passed) ==
    IF \E i \in DOMAIN tr : tr[i].name = test_name
    THEN [i \in DOMAIN tr |->
             IF tr[i].name = test_name
             THEN [tr[i] EXCEPT !.results = Append(@, passed)] ELSE tr[i]]
    ELSE Append(tr, [name |-> test_name, results |-> <<passed>>])

MetricsCollector_record_metric(name) ==
    /\ metrics' = Append(metrics, name)
    /\ mc_ret' = NoRet
    /\ UNCHANGED <<notMetrics, now, storage_path, storage, test_results, crash_events,
                   response_times, load_times, session_start, mc_hist>>

MetricsCollector_record_test_result(test_name, passed) ==
    /\ test_results' = Recorded(test_results, test_name, passed)
    /\ mc_hist' = [mc_hist EXCEPT !.calls = @ + 1]
    /\ mc_ret' = NoRet
    /\ UNCHANGED <<notMetrics, now, storage_path, storage, metrics, crash_events,
                   response_times, load_times, session_start>>

MetricsCollector_record_crash ==
    /\ crash_events' = Append(crash_events, now)
    /\ mc_ret' = NoRet
    /\ UNCHANGED <<notMetrics, now, storage_path, storage, metrics, test_results,
                   response_times, load_times, session_start, mc_hist>>

MetricsCollector_record_response_time(time_ms) ==
    /\ response_times' = Append(response_times, time_ms)
    /\ mc_ret' = NoRet
    /\ UNCHANGED <<notMetrics, now, storage_path, storage, metrics, test_results,
                   crash_events, load_times, session_start, mc_hist>>

MetricsCollector_record_load_time(time_ms) ==
    /\ load_times' = Append(load_times, time_ms)
    /\ mc_ret' = NoRet
    /\ UNCHANGED <<notMetrics, now, storage_path, storage, metrics, test_results,
                   crash_events, response_times, session_start, mc_hist>>

\* ------------------------------------------------------------ derived metrics
\* a test is counted as flaky by get_real_time_metrics: len(results) >= 2 and
\* 0 < sum(results) < len(results)
CountedFlaky(results) ==
    Len(results) >= 2 /\ 0 < Passes(results) /\ Passes(results) < Len(results)

\* the average of a series, 0.0 when it is empty
Average(s) == IF s = <<>> THEN QInt(0) ELSE QDiv(SumSeq(s), Len(s))

\* EngagementScore without the weights' complement: flaky_test_rate * 0.2
EngagementScore_FlakyRewarded(pass_rate, flaky_test_rate) ==
    QMin(QInt(100), QAdd(QMul(pass_rate, Q(8, 10)), QMul(flaky_test_rate, Q(2, 10))))

\* min(100, pass_rate * 0.8 + (100 - flaky_test_rate) * 0.2)
EngagementScore(pass_rate, flaky_test_rate) ==
    QMin(QInt(100), QAdd(QMul(pass_rate, Q(8, 10)),
                         QMul(QSub(QInt(100), flaky_test_rate), Q(2, 10))))

\* FlakyTestRate over the names that ran at least three times
FlakyTestRate_Threshold(tr) ==
    LET flaky_count == Cardinality({i \in DOMAIN tr :
                           Len(tr[i].results) >= 3 /\ CountedFlaky(tr[i].results)})
    IN  IF Len(tr) > 0 THEN QMul(QDiv(flaky_count, Len(tr)), QInt(100)) ELSE QInt(0)

\* flaky_count / len(self._test_results) * 100, or the default 0.0
FlakyTestRate(tr) ==
    LET flaky_count == Cardinality({i \in DOMAIN tr : CountedFlaky(tr[i].results)})
    IN  IF Len(tr) > 0 THEN QMul(QDiv(flaky_count, Len(tr)), QInt(100)) ELSE QInt(0)

\* CrashRate dividing by the hours since the first crash
CrashRate_SinceFirstCrash(crashes, start, t) ==
    IF crashes # <<>> /\ t - crashes[1] > 0
    THEN QDiv(Len(crashes), t - crashes[1]) ELSE QInt(0)

\* len(self._crash_events) / session_hours when session_hours > 0, else 0.0;
\* the clock counts hours
CrashRate(crashes, start, t) ==
    IF t - start > 0 THEN QDiv(Len(crashes), t - start) ELSE QInt(0)

\* PassCounts reporting the failures as the total
PassCounts_FailedIsTotal(tr) ==
    LET total == TotalResults(tr)
        passed == TotalPassed(tr)
    IN  IF total > 0
        THEN [pass_rate |-> QMul(QDiv(passed, total), QInt(100)), total_tests |-> total,
              passed_tests |-> passed, failed_tests |-> total]
        ELSE [pass_rate |-> QInt(0), total_tests |-> 0, passed_tests |-> 0,
              failed_tests |-> 0]

\* pass_rate, total_tests, passed_tests, failed_tests of get_real_time_metrics
PassCounts(tr) ==
    LET total == TotalResults(tr)
        passed == TotalPassed(tr)
    IN  IF total > 0
        THEN [pass_rate |-> QMul(QDiv(passed, total), QInt(100)), total_tests |-> total,
              passed_tests |-> passed, failed_tests |-> total - passed]
        ELSE [pass_rate |-> QInt(0), total_tests |-> 0, passed_tests |-> 0,
              failed_tests |-> 0]

\* the RealTimeMetrics get_real_time_metrics builds from a collector's fields
\* at time t
RealTimeMetrics(data, t) ==
    LET counts == PassCounts(data.test_results)
        flaky == FlakyTestRate(data.test_results)
    IN  [crash_rate |-> CrashRate(data.crash_events, data.session_start, t),
         pass_rate |-> counts.pass_rate,
         flaky_test_rate |-> flaky,
         avg_response_time_ms |-> Average(data.response_times),
         avg_load_time_ms |-> Average(data.load_times),
         total_tests |-> counts.total_tests,
         passed_tests |-> counts.passed_tests,
         failed_tests |-> counts.failed_tests,
         engagement_score |-> EngagementScore(counts.pass_rate, flaky)]

MetricsCollector_get_real_time_metrics ==
    /\ mc_ret' = [op |-> "get_real_time_metrics", at |-> now,
                  value |-> RealTimeMetrics(Snapshot, now)]
    /\ UNCHANGED <<notMetrics, now, storage_path, storage, metrics, test_results,
                   crash_events, response_times, load_times, session_start, mc_hist>>

\* ------------------------------------------------------------ get_flaky_tests
\* the dictionary get_flaky_tests appends for one test name
FlakyEntry(e) ==
    LET pass_count == Passes(e.results)
        fail_count == Len(e.results) - pass_count
    IN  [name |-> e.name, total_runs |-> Len(e.results), pass_count |-> pass_count,
         fail_count |-> fail_count,
         flakiness_rate |->
             QMul(QDiv(IF pass_count <= fail_count THEN pass_count ELSE fail_count,
                       Len(e.results)), QInt(100))]

\* FlakyList taking every name with a failure, whether or not it ever passed
RECURSIVE FlakyList_AnyFailure(_, _)
FlakyList_AnyFailure(tr, min_runs) ==
    IF tr = <<>> THEN <<>>
    ELSE LET e == tr[1]
             rest == FlakyList_AnyFailure(Tail(tr), min_runs)
         IN  IF Len(e.results) >= min_runs /\ Len(e.results) - Passes(e.results) > 0
             THEN <<FlakyEntry(e)>> \o rest
             ELSE rest

\* the loop of get_flaky_tests: the names that qualify, in dictionary order
RECURSIVE FlakyList(_, _)
FlakyList(tr, min_runs) ==
    IF tr = <<>> THEN <<>>
    ELSE LET e == tr[1]
             pass_count == Passes(e.results)
             rest == FlakyList(Tail(tr), min_runs)
         IN  IF Len(e.results) >= min_runs /\ pass_count > 0
                /\ Len(e.results) - pass_count > 0
             THEN <<FlakyEntry(e)>> \o rest
             ELSE rest

\* x put into a list sorted by falling flakiness_rate, behind the entries that
\* are not smaller (the sort is stable)
InsertByRate(x, s) ==
    LET ahead == {i \in DOMAIN s : QLeq(x.flakiness_rate, s[i].flakiness_rate)}
        k == Cardinality(ahead)
    IN  SubSeq(s, 1, k) \o <<x>> \o SubSeq(s, k + 1, Len(s))

\* SortedByRate leaving the list in dictionary order
SortedByRate_Unsorted(s) == s

\* sorted(flaky, key=lambda x: x["flakiness_rate"], reverse=True)
RECURSIVE SortedByRate(_)
SortedByRate(s) ==
    IF s = <<>> THEN <<>>
    ELSE InsertByRate(s[Len(s)], SortedByRate(SubSeq(s, 1, Len(s) - 1)))

MetricsCollector_get_flaky_tests(min_runs) ==
    /\ mc_ret' = [op |-> "get_flaky_tests", min_runs |-> min_runs,
                  value |-> SortedByRate(FlakyList(test_results, min_runs))]
    /\ UNCHANGED <<notMetrics, now, storage_path, storage, metrics, test_results,
                   crash_events, response_times, load_times, session_start, mc_hist>>

\* export_metrics: real_time, flaky_tests (min_runs = 3), crash_count; the
\* copies of the lists are not kept here
MetricsCollector_export_metrics ==
    /\ mc_ret' = [op |-> "export_metrics", at |-> now,
                  real_time |-> RealTimeMetrics(Snapshot, now),
                  flaky_tests |-> SortedByRate(FlakyList(test_results, 3)),
                  crash_count |-> Len(crash_events)]
    /\ UNCHANGED <<notMetrics, now, storage_path, storage, metrics, test_results,
                   crash_events, response_times, load_times, session_start, mc_hist>>

\* ------------------------------------------------------------ save, reset
\* save(): nothing without a storage path, else the snapshot replaces the file
MetricsCollector_save ==
    /\ storage' = IF storage_path THEN File(Snapshot) ELSE storage
    /\ mc_ret' = NoRet
    /\ UNCHANGED <<notMetrics, now, storage_path, metrics, test_results, crash_events,
                   response_times, load_times, session_start, mc_hist>>

\* MetricsCollector_reset keeping the session start
MetricsCollector_reset_KeepsStart ==
    /\ metrics' = <<>>
    /\ test_results' = <<>>
    /\ crash_events' = <<>>
    /\ response_times' = <<>>
    /\ load_times' = <<>>
    /\ mc_hist' = NoHist
    /\ mc_ret' = [op |-> "reset", at |-> now]
    /\ UNCHANGED <<notMetrics, now, storage_path, storage, session_start>>

MetricsCollector_reset ==
    /\ metrics' = <<>>
    /\ test_results' = <<>>
    /\ crash_events' = <<>>
    /\ response_times' = <<>>
    /\ load_times' = <<>>
    /\ session_start' = now
    /\ mc_hist' = NoHist
    /\ mc_ret' = [op |-> "reset", at |-> now]
    /\ UNCHANGED <<notMetrics, now, storage_path, storage>>

\* ------------------------------------------------------------ a new collector
\* MetricsCollector(storage_path) on the path of the collector at hand, which
\* it replaces unless the constructor raises. The call's record keeps what
\* get_real_time_metrics returns at this moment on the old and on the new
\* collector, and whether the file is what the old collector would save now.
MetricsCollector_new ==
    LET c == Constructed(storage_path, storage)
        fresh == [session_start |-> now, metrics |-> c.metrics,
                  test_results |-> c.test_results, crash_events |-> c.crash_events,
                  response_times |-> c.response_times, load_times |-> c.load_times]
        ret == [op |-> "init", raised |-> c.raised,
                file |-> IF ~storage_path \/ ~storage.exists THEN "missing"
                         ELSE IF storage \in CorruptFiles THEN "corrupt" ELSE "saved",
                saved_now |-> storage_path /\ storage = File(Snapshot),
                before |-> RealTimeMetrics(Snapshot, now),
                after |-> RealTimeMetrics(fresh, now)]
    IN  /\ mc_ret' = ret
        /\ IF c.raised
           THEN UNCHANGED <<metrics, test_results, crash_events, response_times,
                            load_times, session_start, mc_hist>>
           ELSE /\ metrics' = c.metrics
                /\ test_results' = c.test_results
                /\ crash_events' = c.crash_events
                /\ response_times' = c.response_times
                /\ load_times' = c.load_times
                /\ session_start' = now
                /\ mc_hist' = [NoHist EXCEPT !.restored = TotalResults(c.test_results)]
        /\ UNCHANGED <<notMetrics, now, storage_path, storage>>

\* ------------------------------------------------------------ environment
\* time passes; what the last call returned stays in the caller's hands
Tick ==
    /\ now' = now + 1
    /\ UNCHANGED <<notMetrics, storage_path, storage, metrics, test_results, crash_events,
                   response_times, load_times, session_start, mc_ret, mc_hist>>

\* the file at the storage path is replaced from outside
WriteFile(f) ==
    /\ storage_path
    /\ storage' = f
    /\ mc_ret' = NoRet
    /\ UNCHANGED <<notMetrics, now, storage_path, metrics, test_results, crash_events,
                   response_times, load_times, session_start, mc_hist>>

\* ------------------------------------------------ TestSuite, generate_summary
\* TestCase.status: the four statuses get_statistics counts, and one it does not
Statuses == {"passed", "failed", "skipped", "broken", "error"}

\* TestSuite(name): a new suite object without test cases (every suite here
\* has the same name)
TestSuite_init ==
    /\ suite_objs' = Append(suite_objs, <<>>)
    /\ summary' = NoRet
    /\ UNCHANGED <<adapterVars, reportVars, metricsVars, toolVars, suites>>

\* TestSuite.add_test on suite object s, with a test case of the given status
TestSuite_add_test(s, status) ==
    /\ s \in DOMAIN suite_objs
    /\ suite_objs' = [suite_objs EXCEPT ![s] = Append(@, status)]
    /\ summary' = NoRet
    /\ UNCHANGED <<adapterVars, reportVars, metricsVars, toolVars, suites>>

\* sum(1 for t in self.test_cases if t.status == status)
CountStatus(cases, status) == Cardinality({i \in DOMAIN cases : cases[i] = status})

\* TestSuite.get_statistics
TestSuite_get_statistics(cases) ==
    [total |-> Len(cases),
     passed |-> CountStatus(cases, "passed"),
     failed |-> CountStatus(cases, "failed"),
     skipped |-> CountStatus(cases, "skipped"),
     broken |-> CountStatus(cases, "broken")]

\* ReportGenerator.add_suite: the list keeps a reference to the suite object
ReportGenerator_add_suite(s) ==
    /\ s \in DOMAIN suite_objs
    /\ suites' = Append(suites, s)
    /\ summary' = NoRet
    /\ UNCHANGED <<adapterVars, reportVars, metricsVars, toolVars, suite_objs>>

\* AllStats taking suites of one name for one suite (here all suites have the
\* same name): the first suite added stands for all
AllStats_MergedByName(key) ==
    IF suites = <<>> THEN 0 ELSE TestSuite_get_statistics(suite_objs[suites[1]])[key]

\* the loop of generate_summary: all_stats[key] += stats.get(key, 0)
AllStats(key) ==
    SumSeq([i \in DOMAIN suites |-> TestSuite_get_statistics(suite_objs[suites[i]])[key]])

\* ReportGenerator.generate_summary; seen: the add_issue calls made before it
ReportGenerator_generate_summary ==
    /\ summary' =
           [op |-> "generate_summary",
            total |-> AllStats("total"), passed |-> AllStats("passed"),
            failed |-> AllStats("failed"), skipped |-> AllStats("skipped"),
            broken |-> AllStats("broken"),
            pass_rate |-> IF AllStats("total") > 0
                          THEN QMul(QDiv(AllStats("passed"), AllStats("total")), QInt(100))
                          ELSE QInt(0),
            issues |-> Len(issues),
            critical_issues |->
                Cardinality({i \in DOMAIN issues : issues[i].severity = "critical"}),
            suites |-> Len(suites),
            seen |-> issue_ret.calls]
    /\ UNCHANGED <<adapterVars, reportVars, metricsVars, toolVars, suite_objs, suites>>

\* ------------------------------------------------------------ bullet points
\* the dict literal of the sort key and of severity_icon: its keys and ranks
SeverityRanks == [critical |-> 0, high |-> 1, medium |-> 2, low |-> 3]

\* {...}[x["severity"]] raises KeyError for a severity that is no key
BulletsRaise ==
    \E i \in DOMAIN issues : issues[i].severity \notin DOMAIN SeverityRanks

\* f"{pass_rate:.1f}": the value in tenths, rounded to the nearest, a tie to
\* the even tenth
Tenths(q) ==
    LET n == q.num * 10
        fl == n \div q.den
        rem == n % q.den
    IN  IF 2 * rem > q.den THEN fl + 1
        ELSE IF 2 * rem = q.den THEN fl + (fl % 2)
        ELSE fl

\* x put into a list sorted by rising severity rank, behind the entries of
\* its own rank (the sort is stable)
InsertByRank(x, s) ==
    LET ahead == {i \in DOMAIN s :
                     SeverityRanks[s[i].severity] <= SeverityRanks[x.severity]}
        k == Cardinality(ahead)
    IN  SubSeq(s, 1, k) \o <<x>> \o SubSeq(s, k + 1, Len(s))

\* SortedByRank leaving the issues in insertion order
SortedByRank_Unsorted(s) == s

\* sorted(self._issues, key=lambda x: {...}[x["severity"]])
RECURSIVE SortedByRank(_)
SortedByRank(s) ==
    IF s = <<>> THEN <<>>
    ELSE InsertByRank(s[Len(s)], SortedByRank(SubSeq(s, 1, Len(s) - 1)))

\* the line of one issue: icon (its severity), title, and the occurrences
\* when there are more than one (times = 0: no " (Nx)" suffix)
IssueBullet(issue) ==
    [kind |-> "issue", severity |-> issue.severity, title |-> issue.title,
     times |-> IF issue.occurrences > 1 THEN issue.occurrences ELSE 0]

\* the list generate_bullet_points builds when no lookup raises
Bullets ==
    LET total == AllStats("total")
        pass_rate == IF total > 0
                     THEN QMul(QDiv(AllStats("passed"), total), QInt(100)) ELSE QInt(0)
        critical == Cardinality({i \in DOMAIN issues : issues[i].severity = "critical"})
        sorted == SortedByRank(issues)
    IN  << [kind |-> "ran", total |-> total, tenths |-> Tenths(pass_rate)] >>
        \o (IF AllStats("failed") > 0
            THEN << [kind |-> "failed", count |-> AllStats("failed")] >> ELSE <<>>)
        \o (IF AllStats("broken") > 0
            THEN << [kind |-> "broken", count |-> AllStats("broken")] >> ELSE <<>>)
        \o (IF critical > 0 THEN << [kind |-> "critical", count |-> critical] >> ELSE <<>>)
        \o [i \in DOMAIN sorted |-> IssueBullet(sorted[i])]

\* ReportGenerator.generate_bullet_points
ReportGenerator_generate_bullet_points ==
    /\ summary' = IF BulletsRaise
                  THEN [op |-> "generate_bullet_points", raised |-> TRUE,
                        seen |-> issue_ret.calls]
                  ELSE [op |-> "generate_bullet_points", raised |-> FALSE,
                        value |-> Bullets, seen |-> issue_ret.calls]
    /\ UNCHANGED <<adapterVars, reportVars, metricsVars, toolVars, suite_objs, suites>>

\* ReportGenerator._history: empty from __init__ on; only load_history, which
\* is no operation of these sessions, assigns it
ReportGenerator_history == <<>>

\* ReportGenerator.get_trends: {} without history
ReportGenerator_get_trends ==
    /\ summary' = [op |-> "get_trends", raised |-> FALSE,
                   total_runs |-> Len(ReportGenerator_history),
                   seen |-> issue_ret.calls]
    /\ UNCHANGED <<adapterVars, reportVars, metricsVars, toolVars, suite_objs, suites>>

\* a report generator without suites, no suite object, no summary made
Suites_init ==
    /\ suite_objs = <<>>
    /\ suites = <<>>
    /\ summary = NoRet

\* ------------------------------------------------------------ AdapterRegistry
MaxRegistered == 2
MaxInstances == 2

\* SOFTWARE_TYPE, the class attribute of the four adapter classes
SOFTWARE_TYPE ==
    [GameAdapter |-> "video_game", VSTAdapter |-> "vst_plugin",
     WebAdapter |-> "web_app", WindowsAdapter |-> "windows_app"]

\* list(d.keys()) of a dict kept as (name, class) pairs in insertion order
Keys(d) == [i \in DOMAIN d |-> d[i].name]

KeySet(d) == {d[i].name : i \in DOMAIN d}

\* ClassOf, returning the first registered class for a name that is absent
ClassOf_FirstForAbsent(d, name) ==
    IF name \in KeySet(d)
    THEN d[CHOOSE i \in DOMAIN d : d[i].name = name].class
    ELSE IF d # <<>> THEN d[1].class ELSE "None"

\* d.get(name): the class stored under name, or None
ClassOf(d, name) ==
    IF name \in KeySet(d)
    THEN d[CHOOSE i \in DOMAIN d : d[i].name = name].class
    ELSE "None"

\* d[name] = class: a key that is present keeps its place
SetItem_Appended(d, name, class) == Append(d, [name |-> name, class |-> class])

SetItem(d, name, class) ==
    IF name \in KeySet(d)
    THEN [i \in DOMAIN d |-> IF d[i].name = name
                             THEN [name |-> name, class |-> class] ELSE d[i]]
    ELSE Append(d, [name |-> name, class |-> class])

RegCall(op, name) ==
    [op |-> op, name |-> name, ret |-> "None", instance |-> 0, value |-> <<>>,
     replaced |-> FALSE]

\* the class attributes _adapters = {} and _instances = {}; _instances is
\* written by nothing but clear and stays empty
AdapterRegistry_init ==
    /\ adapters = <<>>
    /\ reg_ret = RegCall("none", "")
    /\ reg_hist = [since |-> <<>>, ever |-> {}, created |-> 0]

notRegistry == <<adapterVars, reportVars, suiteVars, metricsVars, bench, app>>

\* register(adapter_class, name): name "" stands for None and for the empty
\* string, which `name or adapter_class.__name__` both replace by the class name
AdapterRegistry_register(adapter_class, name) ==
    LET adapter_name == IF name = "" THEN adapter_class ELSE name
    IN  /\ adapters' = SetItem(adapters, adapter_name, adapter_class)
        /\ reg_ret' = [RegCall("register", adapter_name) EXCEPT
                           !.replaced = adapter_name \in KeySet(adapters)]
        /\ reg_hist' = [reg_hist EXCEPT
                            !.since = [n \in DOMAIN @ \cup {adapter_name} |->
                                          IF n = adapter_name THEN adapter_class ELSE @[n]],
                            !.ever = @ \cup {adapter_name}]
        /\ UNCHANGED notRegistry

AdapterRegistry_get_adapter_class(name) ==
    /\ reg_ret' = [RegCall("get_adapter_class", name) EXCEPT
                       !.ret = ClassOf(adapters, name)]
    /\ UNCHANGED <<adapters, reg_hist, notRegistry>>

\* create_adapter(name) without keyword arguments: every class is truthy, and
\* the four adapters' constructors take no required argument
AdapterRegistry_create_adapter(name) ==
    LET adapter_class == ClassOf(adapters, name)
    IN  /\ IF adapter_class # "None"
           THEN /\ reg_hist' = [reg_hist EXCEPT !.created = @ + 1]
                /\ reg_ret' = [RegCall("create_adapter", name) EXCEPT
                                   !.ret = adapter_class,
                                   !.instance = reg_hist.created + 1]
           ELSE /\ reg_ret' = RegCall("create_adapter", name)
                /\ UNCHANGED reg_hist
        /\ UNCHANGED <<adapters, notRegistry>>

AdapterRegistry_list_adapters ==
    /\ reg_ret' = [RegCall("list_adapters", "") EXCEPT !.value = Keys(adapters)]
    /\ UNCHANGED <<adapters, reg_hist, notRegistry>>

\* HasType without the comparison of the type
HasType_AnyTagged(entry, software_type) == entry.class \in DOMAIN SOFTWARE_TYPE

\* the names list_adapters_by_type collects: hasattr(class, 'SOFTWARE_TYPE')
\* and class.SOFTWARE_TYPE == software_type
HasType(entry, software_type) ==
    /\ entry.class \in DOMAIN SOFTWARE_TYPE
    /\ SOFTWARE_TYPE[entry.class] = software_type

AdapterRegistry_list_adapters_by_type(software_type) ==
    /\ reg_ret' = [RegCall("list_adapters_by_type", software_type) EXCEPT
                       !.value = Keys(SelectSeq(adapters,
                                     LAMBDA e : HasType(e, software_type)))]
    /\ UNCHANGED <<adapters, reg_hist, notRegistry>>

AdapterRegistry_clear ==
    /\ adapters' = <<>>
    /\ reg_ret' = RegCall("clear", "")
    /\ reg_hist' = [reg_hist EXCEPT !.since = <<>>]
    /\ UNCHANGED notRegistry

\* the classes a caller registers: two of the adapters, and PlainAdapter, a
\* BaseAdapter subclass that declares no SOFTWARE_TYPE
AdapterClasses == {"GameAdapter", "WebAdapter", "PlainAdapter"}
RegisterNames == {"", "web", "game"}
LookupNames == {"web", "game", "GameAdapter", "nonexistent"}
SoftwareTypes == {"video_game", "web_app", "daw"}

RegistryNext ==
    \/ \E c \in AdapterClasses, n \in RegisterNames :
          /\ Cardinality(KeySet(adapters)
                 \cup {IF n = "" THEN c ELSE n}) <= MaxRegistered
          /\ AdapterRegistry_register(c, n)
    \/ \E n \in LookupNames : AdapterRegistry_get_adapter_class(n)
    \/ \E n \in LookupNames :
          reg_hist.created < MaxInstances /\ AdapterRegistry_create_adapter(n)
    \/ AdapterRegistry_list_adapters
    \/ \E t \in SoftwareTypes : AdapterRegistry_list_adapters_by_type(t)
    \/ AdapterRegistry_clear

\* ------------------------------------------------------ SeleniumGridBenchmark
MaxWorkers == 2
MaxRuns == 2

\* GridMetrics(): the counts of a fresh aggregate
GridMetrics == [total_tests |-> 0, passed_tests |-> 0, failed_tests |-> 0,
                browsers_tested |-> {}]

\* a benchmark object outside run_benchmark. max_workers and logs are its
\* fields _max_workers and len(_logs), metrics is _metrics; the other fields
\* are the locals of the run_benchmark call: the executor's futures (probes,
\* one per submitted configuration: "queued", "running" or "done", and what
\* the probe returned), the futures as_completed has yielded, and results.
Benchmark(max_workers, logs) ==
    [max_workers |-> max_workers, logs |-> logs, phase |-> "idle",
     configs |-> <<>>, probes |-> <<>>, yielded |-> {}, results |-> <<>>,
     metrics |-> GridMetrics]

\* __init__: _max_workers = 5, no logs
SeleniumGridBenchmark_init == bench = Benchmark(5, 0)

notBench == <<adapterVars, reportVars, suiteVars, metricsVars, registryVars, app>>

SeleniumGridBenchmark_set_max_workers(workers) ==
    /\ bench.phase # "running"
    /\ bench' = [bench EXCEPT !.max_workers = workers]
    /\ UNCHANGED notBench

\* run_benchmark up to the executor: _metrics is replaced, results is empty;
\* ThreadPoolExecutor(max_workers) raises ValueError when max_workers <= 0
SeleniumGridBenchmark_run_benchmark(configs) ==
    /\ bench.phase # "running"
    /\ bench' = [Benchmark(bench.max_workers, bench.logs) EXCEPT
                     !.configs = configs,
                     !.phase = IF bench.max_workers <= 0 THEN "raised" ELSE "running"]
    /\ UNCHANGED notBench

\* executor.submit of the next configuration
Submit ==
    /\ bench.phase = "running"
    /\ Len(bench.probes) < Len(bench.configs)
    /\ bench' = [bench EXCEPT
                     !.probes = Append(@, [state |-> "queued", success |-> FALSE])]
    /\ UNCHANGED notBench

\* the probes that occupy a worker thread
RunningProbes ==
    {i \in DOMAIN bench.probes : bench.probes[i].state \in {"running", "blocked"}}

FreeWorker_Always == TRUE

\* the pool has a thread that runs no probe
FreeWorker == Cardinality(RunningProbes) < bench.max_workers

\* a worker thread takes the oldest queued call of _run_single_benchmark
ProbeStart(i) ==
    /\ bench.phase = "running"
    /\ i \in DOMAIN bench.probes
    /\ bench.probes[i].state = "queued"
    /\ \A j \in 1..(i - 1) : bench.probes[j].state # "queued"
    /\ FreeWorker
    /\ bench' = [bench EXCEPT !.probes[i].state = "running"]
    /\ UNCHANGED notBench

\* _run_single_benchmark returns: a result with success True, or, from its
\* except clauses, one with success False; it writes no field of the object
ProbeReturns(i, success) ==
    /\ bench.phase = "running"
    /\ i \in DOMAIN bench.probes
    /\ bench.probes[i].state = "running"
    /\ bench' = [bench EXCEPT !.probes[i] = [state |-> "done", success |-> success]]
    /\ UNCHANGED notBench

\* webdriver.Remote(...) of a probe does not return (the hub accepts the
\* connection and never answers): the timeout argument is applied only
\* afterwards, by driver.set_page_load_timeout, so nothing ends the call
SessionNeverCreated(i) ==
    /\ bench.phase = "running"
    /\ i \in DOMAIN bench.probes
    /\ bench.probes[i].state = "running"
    /\ bench' = [bench EXCEPT !.probes[i].state = "blocked"]
    /\ UNCHANGED notBench

\* as_completed, entered after the last submit, yields a finished future and
\* the loop body appends its result
Collect(i) ==
    /\ bench.phase = "running"
    /\ Len(bench.probes) = Len(bench.configs)
    /\ i \in DOMAIN bench.probes \ bench.yielded
    /\ bench.probes[i].state = "done"
    /\ bench' = [bench EXCEPT
                     !.yielded = @ \cup {i},
                     !.results = Append(@, [config |-> i,
                                            browser |-> bench.configs[i],
                                            success |-> bench.probes[i].success])]
    /\ UNCHANGED notBench

PassedCount(results) == Cardinality({k \in DOMAIN results : results[k].success})

\* as_completed is exhausted when every future was yielded; the executor
\* shuts down, the counts are taken from results, one log line is appended
Aggregate ==
    /\ bench.phase = "running"
    /\ Len(bench.probes) = Len(bench.configs)
    /\ bench.yielded = DOMAIN bench.probes
    /\ bench' = [bench EXCEPT
                     !.phase = "returned",
                     !.logs = @ + 1,
                     !.metrics = [total_tests |-> Len(bench.results),
                                  passed_tests |-> PassedCount(bench.results),
                                  failed_tests |-> Len(bench.results)
                                                      - PassedCount(bench.results),
                                  browsers_tested |->
                                      {bench.results[k].browser : k \in DOMAIN bench.results}]]
    /\ UNCHANGED notBench

\* the configuration lists passed to run_benchmark, each configuration by
\* its browser
ConfigLists == {<<>>, <<"chrome">>, <<"chrome", "firefox", "chrome">>}

BenchNext ==
    \/ \E w \in 0..MaxWorkers : SeleniumGridBenchmark_set_max_workers(w)
    \/ \E c \in ConfigLists :
          bench.logs < MaxRuns /\ SeleniumGridBenchmark_run_benchmark(c)
    \/ Submit
    \/ \E i \in DOMAIN bench.probes : ProbeStart(i)
    \/ \E i \in DOMAIN bench.probes, ok \in BOOLEAN : ProbeReturns(i, ok)
    \/ \E i \in DOMAIN bench.probes : SessionNeverCreated(i)
    \/ \E i \in DOMAIN bench.probes : Collect(i)
    \/ Aggregate

\* ------------------------------------------------------------ the launcher
\* BetaTeam, launcher.py. current_process: 0 is None, else an index of procs,
\* the subprocesses of this run ("running", "exited", "terminated"). ui and
\* worker are the positions of the Tk main thread and of the run_tests
\* thread; todo counts the scenarios the loop has not reached yet.
\* stop_raised, stop_did and late_start are history: stop_tests called
\* terminate() on None, what the last stop_tests did, and a scenario's
\* subprocess was started while the stop event was set.
notLauncher == <<adapterVars, reportVars, suiteVars, metricsVars, registryVars, bench>>

\* __init__: is_running False, the event clear, no subprocess
BetaTeam_init ==
    app = [is_running |-> FALSE, stop_event |-> FALSE, current_process |-> 0,
           procs |-> <<>>, todo |-> 0, worker |-> "none", ui |-> "idle",
           stop_raised |-> FALSE, stop_did |-> "-", late_start |-> FALSE]

\* start_tests with n scenarios selected (GO is disabled while tests run):
\* is_running = True, stop_event.clear(), the thread started
BetaTeam_start_tests(n) ==
    /\ app.ui = "idle" /\ ~app.is_running
    /\ app' = [app EXCEPT !.is_running = TRUE, !.stop_event = FALSE,
                          !.todo = n, !.procs = <<>>, !.worker = "loop",
                          !.stop_did = "-"]
    /\ UNCHANGED notLauncher

\* run_tests: for scenario in selected: if self.stop_event.is_set(): break
RunTests_loop ==
    /\ app.worker = "loop"
    /\ app' = [app EXCEPT !.worker = IF app.todo = 0 \/ app.stop_event
                                     THEN "after" ELSE "run"]
    /\ UNCHANGED notLauncher

\* run_robot_test up to Popen: the test file is missing (a failed result, no
\* subprocess), robot is not installed (Popen raises FileNotFoundError), or
\* self.current_process = subprocess.Popen(...)
RunRobotTest_Popen(outcome) ==
    /\ app.worker = "run"
    /\ app' = IF outcome = "started"
              THEN [app EXCEPT !.procs = Append(@, "running"),
                               !.current_process = Len(app.procs) + 1,
                               !.worker = "communicate",
                               !.late_start = @ \/ app.stop_event]
              ELSE [app EXCEPT !.todo = @ - 1, !.worker = "loop"]
    /\ UNCHANGED notLauncher

\* the subprocess ends by itself
Subprocess_exits ==
    /\ \E h \in DOMAIN app.procs :
           /\ app.procs[h] = "running"
           /\ app' = [app EXCEPT !.procs[h] = "exited"]
    /\ UNCHANGED notLauncher

\* communicate(timeout=300) returns when the subprocess has ended, or raises
\* TimeoutExpired while it still runs; the finally clause comes next
RunRobotTest_communicate ==
    /\ app.worker = "communicate"
    /\ app' = [app EXCEPT !.worker = "finally"]
    /\ UNCHANGED notLauncher

\* finally: self.current_process = None; then the result is returned (the
\* except TimeoutExpired clause finds current_process None and kills nothing)
RunRobotTest_finally ==
    /\ app.worker = "finally"
    /\ app' = [app EXCEPT !.current_process = 0, !.todo = @ - 1, !.worker = "loop"]
    /\ UNCHANGED notLauncher

\* self.root.after(0, update_results_on_main_thread): the thread ends
RunTests_after ==
    /\ app.worker = "after"
    /\ app' = [app EXCEPT !.worker = "posted"]
    /\ UNCHANGED notLauncher

\* update_results_on_main_thread, run by the main loop: _tests_completed
BetaTeam_tests_completed ==
    /\ app.worker = "posted" /\ app.ui = "idle"
    /\ app' = [app EXCEPT !.is_running = FALSE, !.worker = "none"]
    /\ UNCHANGED notLauncher

\* stop_tests (STOP is enabled while tests run): self.stop_event.set()
BetaTeam_stop_tests ==
    /\ app.ui = "idle" /\ app.is_running
    /\ app' = [app EXCEPT !.stop_event = TRUE, !.ui = "stop_check", !.stop_did = "-"]
    /\ UNCHANGED notLauncher

\* stop_tests: if self.current_process:
StopTests_check ==
    /\ app.ui = "stop_check"
    /\ app' = IF app.current_process # 0
              THEN [app EXCEPT !.ui = "stop_terminate"]
              ELSE [app EXCEPT !.ui = "idle", !.stop_did = "nothing"]
    /\ UNCHANGED notLauncher

\* what self.current_process.terminate() does when the attribute reads h:
\* AttributeError on None, which except ProcessLookupError does not catch;
\* SIGTERM to a running subprocess; nothing on one that has ended
Terminated(a, h) ==
    IF h = 0
    THEN [a EXCEPT !.stop_raised = TRUE, !.stop_did = "raised", !.ui = "idle"]
    ELSE IF a.procs[h] = "running"
    THEN [a EXCEPT !.procs[h] = "terminated", !.stop_did = "terminated", !.ui = "idle"]
    ELSE [a EXCEPT !.stop_did = "nothing", !.ui = "idle"]

\* stop_tests: self.current_process.terminate(), the attribute read again
StopTests_terminate ==
    /\ app.ui = "stop_terminate"
    /\ app' = Terminated(app, app.current_process)
    /\ UNCHANGED notLauncher

LauncherNext ==
    \/ \E n \in 1..MaxScenarios : BetaTeam_start_tests(n)
    \/ RunTests_loop
    \/ \E o \in {"started", "missing", "not_installed"} : RunRobotTest_Popen(o)
    \/ Subprocess_exits
    \/ RunRobotTest_communicate
    \/ RunRobotTest_finally
    \/ RunTests_after
    \/ BetaTeam_tests_completed
    \/ BetaTeam_stop_tests
    \/ StopTests_check
    \/ StopTests_terminate

Tools_idle == AdapterRegistry_init /\ SeleniumGridBenchmark_init /\ BetaTeam_init

\* ------------------------------------------------------------ the sessions
TestIds == {"a", "b"}
MinRuns == {2, 3}
TimesMs == {100}

\* the entries of all five series together
Size ==
    TotalResults(test_results) + Len(metrics) + Len(crash_events)
        + Len(response_times) + Len(load_times)

\* a collector that never existed on disk, as every session that does not
\* use one starts
Metrics_idle == MetricsCollector_init({FALSE}, {MissingFile})

\* test results recorded and read back, on a collector that found no file or
\* the snapshot of an earlier session
FlakyNext ==
    \/ \E n \in TestIds, p \in BOOLEAN :
           /\ TotalResults(test_results) < MaxResults
           /\ MetricsCollector_record_test_result(n, p)
    \/ MetricsCollector_get_real_time_metrics
    \/ \E m \in MinRuns : MetricsCollector_get_flaky_tests(m)
    \/ MetricsCollector_reset

InitFlaky ==
    /\ AdapterInit /\ kind = "game"
    /\ ReportGenerator_init
    /\ Suites_init /\ Tools_idle
    /\ MetricsCollector_init({TRUE}, {MissingFile, File(ValidData)})

SpecFlaky == InitFlaky /\ [][FlakyNext]_vars

\* the two flakiness reports side by side, get_flaky_tests with thresholds
\* on both sides of the two runs get_real_time_metrics asks for
MinRunsAround == {0, 1, 2, 3}

FlakyAgreeNext ==
    \/ \E n \in TestIds, p \in BOOLEAN :
           /\ TotalResults(test_results) < MaxResults
           /\ MetricsCollector_record_test_result(n, p)
    \/ MetricsCollector_get_real_time_metrics
    \/ \E m \in MinRunsAround : MetricsCollector_get_flaky_tests(m)

SpecFlakyAgree == InitFlaky /\ [][FlakyAgreeNext]_vars

\* every operation of a collector between two resets, the clock and the file
CollectorNext ==
    \/ Size < MaxEvents /\ MetricsCollector_record_metric("m")
    \/ \E n \in TestIds, p \in BOOLEAN :
           Size < MaxEvents /\ MetricsCollector_record_test_result(n, p)
    \/ Size < MaxEvents /\ MetricsCollector_record_crash
    \/ \E ms \in TimesMs : Size < MaxEvents /\ MetricsCollector_record_response_time(ms)
    \/ \E ms \in TimesMs : Size < MaxEvents /\ MetricsCollector_record_load_time(ms)
    \/ MetricsCollector_get_real_time_metrics
    \/ \E m \in MinRuns : MetricsCollector_get_flaky_tests(m)
    \/ MetricsCollector_export_metrics
    \/ MetricsCollector_save
    \/ MetricsCollector_new
    \/ now < MaxClock /\ Tick
    \/ \E f \in CorruptFiles \cup {File(ValidData)} : WriteFile(f)

InitCollector ==
    /\ AdapterInit /\ kind = "game"
    /\ ReportGenerator_init
    /\ Suites_init /\ Tools_idle
    /\ MetricsCollector_init(BOOLEAN, {MissingFile})

SpecCollector == InitCollector /\ [][CollectorNext]_vars

\* every series recorded, read and reset while the clock runs, on a collector
\* without a file
ClockNext ==
    \/ Size < MaxEvents /\ MetricsCollector_record_metric("m")
    \/ \E p \in BOOLEAN :
           Size < MaxEvents /\ MetricsCollector_record_test_result("a", p)
    \/ Size < MaxEvents /\ MetricsCollector_record_crash
    \/ \E ms \in TimesMs : Size < MaxEvents /\ MetricsCollector_record_response_time(ms)
    \/ \E ms \in TimesMs : Size < MaxEvents /\ MetricsCollector_record_load_time(ms)
    \/ MetricsCollector_get_real_time_metrics
    \/ MetricsCollector_reset
    \/ MetricsCollector_new
    \/ now < MaxTime /\ Tick

InitClock ==
    /\ AdapterInit /\ kind = "game"
    /\ ReportGenerator_init
    /\ Suites_init /\ Tools_idle
    /\ Metrics_idle

SpecClock == InitClock /\ [][ClockNext]_vars

\* the suite objects a session builds, and the issues it reports
SuiteObjects == {1, 2}
ReportedIssues == {<<Title_Crash, "critical">>, <<Title_Unrelated, "medium">>}

\* suites built and added, issues reported, summaries generated
SummaryNext ==
    \/ Len(suite_objs) < Cardinality(SuiteObjects) /\ TestSuite_init
    \/ \E s \in DOMAIN suite_objs, st \in Statuses :
           /\ SumSeq([i \in DOMAIN suite_objs |-> Len(suite_objs[i])]) < MaxCases
           /\ TestSuite_add_test(s, st)
    \/ \E s \in DOMAIN suite_objs : Len(suites) < MaxSuites /\ ReportGenerator_add_suite(s)
    \/ \E i \in ReportedIssues :
           issue_ret.calls < MaxSuites /\ ReportGenerator_add_issue(i[1], i[2], "None")
    \/ ReportGenerator_generate_summary

InitSummary ==
    /\ AdapterInit /\ kind = "game"
    /\ ReportGenerator_init
    /\ Suites_init /\ Tools_idle
    /\ Metrics_idle

SpecSummary == InitSummary /\ [][SummaryNext]_vars

\* reports of two titles that match each other and one that matches neither,
\* with either severity, with and without a test name, and summaries
MergeNext ==
    \/ \E t \in {Title_LoginFailed, Title_LoginFailedAgain, Title_Unrelated},
          s \in Severities, n \in {"None", "test_login"} :
           ReportGenerator_add_issue(t, s, n)
    \/ ReportGenerator_generate_summary

InitMerge ==
    /\ AdapterInit /\ kind = "game"
    /\ ReportGenerator_init
    /\ Suites_init /\ Tools_idle
    /\ Metrics_idle

SpecMerge == InitMerge /\ [][MergeNext]_vars

\* the severities a caller may pass to add_issue: the four the docstring
\* names and one it does not
AnySeverity == {"critical", "high", "medium", "low", "blocker"}

\* one suite filled and added, issues of any severity reported, and every
\* read of the report generator
BulletsNext ==
    \/ suite_objs = <<>> /\ TestSuite_init
    \/ \E s \in DOMAIN suite_objs, st \in {"passed", "failed", "broken"} :
           /\ SumSeq([i \in DOMAIN suite_objs |-> Len(suite_objs[i])]) < MaxCases
           /\ TestSuite_add_test(s, st)
    \/ \E s \in DOMAIN suite_objs : Len(suites) < MaxSuites /\ ReportGenerator_add_suite(s)
    \/ \E t \in {Title_Crash, Title_Unrelated}, s \in AnySeverity :
           issue_ret.calls < MaxSuites /\ ReportGenerator_add_issue(t, s, "None")
    \/ ReportGenerator_generate_summary
    \/ ReportGenerator_generate_bullet_points
    \/ ReportGenerator_get_trends

InitBullets ==
    /\ AdapterInit /\ kind = "game"
    /\ ReportGenerator_init
    /\ Suites_init /\ Tools_idle
    /\ Metrics_idle

SpecBullets == InitBullets /\ [][BulletsNext]_vars

\* one suite filled and added once, two titles that do not match each other
\* reported with the four severities of the docstring and one other, and the
\* bullet points read
BulletListNext ==
    \/ suite_objs = <<>> /\ TestSuite_init
    \/ \E s \in DOMAIN suite_objs, st \in {"passed", "failed", "broken"} :
           /\ suites = <<>>
           /\ Len(suite_objs[s]) < MaxCases
           /\ TestSuite_add_test(s, st)
    \/ \E s \in DOMAIN suite_objs : suites = <<>> /\ ReportGenerator_add_suite(s)
    \/ \E t \in {Title_LoginFailed, Title_Unrelated}, s \in AnySeverity :
           issue_ret.calls < MaxSuites /\ ReportGenerator_add_issue(t, s, "None")
    \/ ReportGenerator_generate_bullet_points

SpecBulletList == InitBullets /\ [][BulletListNext]_vars

\* an adapter of any class beside a new, idle report generator and collector
InitAdapter ==
    AdapterInit /\ ReportGenerator_init /\ Suites_init /\ Tools_idle /\ Metrics_idle

SpecAdapter == InitAdapter /\ [][AdapterNext]_vars

\* a new report generator beside one new, idle adapter and collector
InitReport ==
    ReportGenerator_init /\ AdapterInit /\ kind = "game" /\ Suites_init /\ Tools_idle
        /\ Metrics_idle

SpecReport == InitReport /\ [][ReportNext]_vars

\* the registry beside one new, idle adapter, report generator and collector
InitRegistry ==
    /\ AdapterInit /\ kind = "game"
    /\ ReportGenerator_init
    /\ Suites_init /\ Tools_idle
    /\ Metrics_idle

SpecRegistry == InitRegistry /\ [][RegistryNext]_vars

\* a benchmark object beside one new, idle adapter, report generator and collector
InitBench ==
    /\ AdapterInit /\ kind = "game"
    /\ ReportGenerator_init
    /\ Suites_init /\ Tools_idle
    /\ Metrics_idle

SpecBench == InitBench /\ [][BenchNext]_vars

\* the threads of a run_benchmark call keep running: the main thread submits,
\* collects and aggregates, a free worker takes the next queued probe, and a
\* probe that has its session returns (a page load is cut off by the page
\* load timeout, which raises and gives a failed result)
BenchFairness ==
    /\ WF_vars(Submit)
    /\ WF_vars(\E i \in DOMAIN bench.probes : ProbeStart(i))
    /\ WF_vars(\E i \in DOMAIN bench.probes, ok \in BOOLEAN : ProbeReturns(i, ok))
    /\ WF_vars(\E i \in DOMAIN bench.probes : Collect(i))
    /\ WF_vars(Aggregate)

SpecBenchLive == InitBench /\ [][BenchNext]_vars /\ BenchFairness

\* a launcher beside one new, idle adapter, report generator and collector
InitLauncher ==
    /\ AdapterInit /\ kind = "game"
    /\ ReportGenerator_init
    /\ Suites_init /\ Tools_idle
    /\ Metrics_idle

SpecLauncher == InitLauncher /\ [][LauncherNext]_vars

\* ============================================================== the claims
NoHandles == process = 0 /\ session = 0 /\ playwright = 0 /\ page = 0

\* C1: run_test on a Disconnected adapter of any class returns status ERROR
\* with duration 0 and a "not connected" message, and does nothing else: no
\* test logic, no poll of the process, no screenshot, no metrics, no log entry.
C1_DisconnectedRunTestRejected ==
    (last.op = "run_test" /\ ~last.was_connected) =>
        /\ ~last.raised
        /\ last.status = "ERROR"
        /\ last.duration0
        /\ last.message = "not_connected"
        /\ last.calls = {}
        /\ last.logged = 0

\* a WindowsAdapter that still holds the handle of a process that crashed at
\* start-up has rejected a run_test
C1_Witness ==
    /\ kind = "windows" /\ process # 0 /\ Exited(process, ext)
    /\ last.op = "run_test" /\ ~last.was_connected /\ last.status = "ERROR"

\* C2: connect on a Disconnected adapter with a target that does not exist
\* returns false, appends a log entry and leaves is_connected false (so that
\* the next run_test is rejected as in C1).
C2_MissingTargetRefused ==
    (last.op = "connect" /\ ~last.was_connected /\ last.fault = "missing_target") =>
        /\ last.ret = "False"
        /\ last.logged >= 1
        /\ ~connected

\* C3: connect never raises, and on a missing target, a missing dependency or
\* a launch error it returns false, logs, and leaves the adapter Disconnected.
C3_ConnectFailsQuietly ==
    (last.op = "connect" /\ ~last.was_connected) =>
        /\ ~last.raised
        /\ last.fault \in {"missing_target", "missing_dependency", "launch_error"} =>
               (last.ret = "False" /\ last.logged >= 1 /\ ~connected)

\* C4: starting from Disconnected, the adapter is Connected after a call if
\* and only if the call was a connect that returned true.
C4_OnlyConnectConnects ==
    (last.op # "none" /\ ~last.was_connected) =>
        (connected <=> (last.op = "connect" /\ last.ret = "True"))

\* C5: disconnect returns in every state, leaves the adapter Disconnected with
\* every handle cleared, and a disconnect on an adapter that is Disconnected
\* and holds nothing changes neither the state nor the handles and releases
\* nothing. (Every disconnect appends one log entry: that tells its step from
\* a step of the environment.)
C5_DisconnectReleases ==
    /\ [](last.op = "disconnect" => (~last.raised /\ ~connected /\ NoHandles))
    /\ [][(last'.op = "disconnect" /\ nlogs' # nlogs /\ ~connected /\ NoHandles) =>
              (~connected' /\ NoHandles' /\ ext' = ext /\ last'.calls = {})]_vars

\* a process was stopped by an earlier disconnect, and the last call was a
\* disconnect on the adapter already Disconnected
C5_Witness ==
    /\ last.op = "disconnect" /\ ~last.was_connected /\ last.calls = {}
    /\ \E h \in DOMAIN ext : ext[h].state \in {"terminated", "killed"}

\* C6: run_test leaves is_connected as it found it, whatever the result, also
\* when it sees that the target process has crashed.
C6_RunTestKeepsConnection ==
    last.op = "run_test" => connected = last.was_connected

\* a run_test on a Connected WindowsAdapter has seen the crash of its process
C6_Witness ==
    /\ last.op = "run_test" /\ last.was_connected /\ last.crash /\ connected

Normalized(t) == Strip(Lower(t))
TitlesMatch(a, b) ==
    \/ Normalized(a) = Normalized(b)
    \/ In(Normalized(a), Normalized(b))
    \/ In(Normalized(b), Normalized(a))

\* the pairs of matching titles
Matching == {q : q \in {p \in Titles \X Titles : TitlesMatch(p[1], p[2])}}

\* the existing issues whose title matches t, by position
MatchingIssues(t) == {i \in DOMAIN issues : <<t, issues[i].title>> \in Matching}

\* C8: add_issue with a title that matches an existing issue merges into the
\* first such issue in insertion order: that issue's occurrence count grows by
\* exactly one, the test name (when one is given) is appended to its tests,
\* its id is returned, and nothing else changes, no record being added. In
\* particular "Login failed" then "login FAILED again" leave one issue with
\* occurrences = 2.
C8_MergeIntoFirstMatch ==
    [][issue_ret'.calls # issue_ret.calls =>
          LET t == issue_ret'.title
              n == issue_ret'.test_name
          IN  /\ MatchingIssues(t) # {} =>
                    LET m == CHOOSE i \in MatchingIssues(t) :
                                 \A j \in MatchingIssues(t) : i <= j
                    IN  /\ issues' = [issues EXCEPT
                               ![m].occurrences = @ + 1,
                               ![m].tests = IF n \notin {"None", ""}
                                            THEN Append(@, n) ELSE @]
                        /\ issue_ret'.id = issues[m].id
              /\ ( /\ Len(issues) = 1
                   /\ issues[1].title = Title_LoginFailed
                   /\ issues[1].occurrences = 1
                   /\ t = Title_LoginFailedAgain ) =>
                    (Len(issues') = 1 /\ issues'[1].occurrences = 2)
      ]_vars

\* "Login failed" then "login FAILED again": one issue, counted twice
C8_Witness ==
    /\ Len(issues) = 1
    /\ issues[1].title = Title_LoginFailed
    /\ issues[1].occurrences = 2
    /\ issue_ret.merged /\ issue_ret.title = Title_LoginFailedAgain

\* C9: no two recorded issues have matching titles.
C9_NoTwoRecordsMatch ==
    \A i, j \in DOMAIN issues :
        i # j => <<issues[i].title, issues[j].title>> \notin Matching

\* at least two issues are recorded and the last report was merged into one of them
C9_Witness ==
    /\ Len(issues) >= 2
    /\ issue_ret.merged
    /\ \E i \in DOMAIN issues : issues[i].occurrences >= 2

\* C10: add_issue with a title that matches no existing issue appends exactly
\* one record, with occurrences = 1, after the existing records, which it
\* leaves as they were, and returns the new record's id, which no existing
\* record has.
C10_NoMatchAppends ==
    [][(issue_ret'.calls # issue_ret.calls /\ MatchingIssues(issue_ret'.title) = {}) =>
          /\ Len(issues') = Len(issues) + 1
          /\ SubSeq(issues', 1, Len(issues)) = issues
          /\ issues'[Len(issues')].title = issue_ret'.title
          /\ issues'[Len(issues')].occurrences = 1
          /\ issue_ret'.id = issues'[Len(issues')].id
          /\ \A i \in DOMAIN issues : issues[i].id # issue_ret'.id
      ]_vars

\* the two login reports, then "Totally unrelated bug": two issues in total
C10_Witness ==
    /\ Len(issues) = 2
    /\ issues[1].title = Title_LoginFailed /\ issues[1].occurrences = 2
    /\ issues[2].title = Title_Unrelated /\ issues[2].occurrences = 1
    /\ ~issue_ret.merged /\ issue_ret.title = Title_Unrelated /\ issue_ret.id = issues[2].id

\* C11: get_real_time_metrics reports passed_tests + failed_tests =
\* total_tests; total_tests is the number of results the collector restored
\* from its snapshot at construction plus the number of record_test_result
\* calls since (after a reset: the calls since the reset alone); pass_rate is
\* passed_tests / total_tests * 100, or 0 when total_tests = 0, and lies in
\* [0, 100].
C11_CountsAddUp ==
    mc_ret.op = "get_real_time_metrics" =>
        LET v == mc_ret.value
        IN  /\ v.passed_tests + v.failed_tests = v.total_tests
            /\ v.total_tests = mc_hist.restored + mc_hist.calls
            /\ v.passed_tests >= 0 /\ v.failed_tests >= 0
            /\ IF v.total_tests = 0
               THEN QEq(v.pass_rate, QInt(0))
               ELSE QEq(v.pass_rate, Q(v.passed_tests * 100, v.total_tests))
            /\ QLeq(QInt(0), v.pass_rate) /\ QLeq(v.pass_rate, QInt(100))

\* a collector that restored two results and recorded two more reports four,
\* three of them passed
C11_Witness ==
    /\ mc_ret.op = "get_real_time_metrics"
    /\ mc_hist = [restored |-> 2, calls |-> 2]
    /\ mc_ret.value.total_tests = 4
    /\ mc_ret.value.passed_tests = 3

\* C11 as stated: total_tests is the number of record_test_result calls since
\* construction or the last reset
C11_TotalIsCalls ==
    mc_ret.op = "get_real_time_metrics" => mc_ret.value.total_tests = mc_hist.calls

\* two values of get_real_time_metrics are the same
SameMetrics(a, b) ==
    /\ QEq(a.crash_rate, b.crash_rate)
    /\ QEq(a.pass_rate, b.pass_rate)
    /\ QEq(a.flaky_test_rate, b.flaky_test_rate)
    /\ QEq(a.avg_response_time_ms, b.avg_response_time_ms)
    /\ QEq(a.avg_load_time_ms, b.avg_load_time_ms)
    /\ a.total_tests = b.total_tests
    /\ a.passed_tests = b.passed_tests
    /\ a.failed_tests = b.failed_tests
    /\ QEq(a.engagement_score, b.engagement_score)

\* C12: a collector constructed on the path another collector has just saved
\* to holds that collector's raw history (metrics, test results, crash events,
\* response times, load times and session start), and get_real_time_metrics
\* returns the same values on both at that moment, crash_rate included.
C12_SaveThenLoadRestores ==
    (mc_ret.op = "init" /\ mc_ret.saved_now) =>
        /\ ~mc_ret.raised
        /\ Snapshot = storage.data
        /\ SameMetrics(mc_ret.after, mc_ret.before)

\* C13: constructing a collector on a missing or corrupt snapshot file raises
\* nothing and leaves all five series empty, also when the file is corrupt
\* only after some valid metric records.
C13_CorruptLoadsEmpty ==
    (mc_ret.op = "init" /\ mc_ret.file \in {"missing", "corrupt"}) =>
        /\ ~mc_ret.raised
        /\ metrics = <<>>
        /\ test_results = <<>>
        /\ crash_events = <<>>
        /\ response_times = <<>>
        /\ load_times = <<>>

MixedNames(tr) ==
    {i \in DOMAIN tr : /\ \E k \in DOMAIN tr[i].results : tr[i].results[k]
                       /\ \E k \in DOMAIN tr[i].results : ~tr[i].results[k]}

\* C15: flaky_test_rate of get_real_time_metrics is the number of distinct
\* test names with at least one pass and at least one failure, divided by the
\* number of distinct test names, times 100, whatever the number of runs of a
\* name; it is 0 when no name was recorded. (test_results holds each name
\* once.)
C15_FlakyTestRate ==
    /\ \A i, j \in DOMAIN test_results :
           i # j => test_results[i].name # test_results[j].name
    /\ mc_ret.op = "get_real_time_metrics" =>
           IF Len(test_results) = 0
           THEN QEq(mc_ret.value.flaky_test_rate, QInt(0))
           ELSE QEq(mc_ret.value.flaky_test_rate,
                    Q(Cardinality(MixedNames(test_results)) * 100, Len(test_results)))

\* two names, one with a pass and a failure in two runs, one that only
\* passed: the rate is 50
C15_Witness ==
    /\ mc_ret.op = "get_real_time_metrics"
    /\ Len(test_results) = 2
    /\ \E i \in DOMAIN test_results :
           Len(test_results[i].results) = 2 /\ i \in MixedNames(test_results)
    /\ Cardinality(MixedNames(test_results)) = 1
    /\ QEq(mc_ret.value.flaky_test_rate, QInt(50))

\* the entries of test_results get_flaky_tests(min_runs) is to list
Qualifying(tr, min_runs) ==
    {i \in MixedNames(tr) : Len(tr[i].results) >= min_runs}

\* min(a, b)
Least(a, b) == IF a <= b THEN a ELSE b

\* C16: get_flaky_tests(min_runs) returns exactly one entry for every test
\* name with at least min_runs recorded runs, at least one pass and at least
\* one failure, and no other entry; an entry gives the name's runs, passes and
\* failures and flakiness_rate = min(passes, failures) / runs * 100; the
\* entries are ordered by non-increasing flakiness_rate.
C16_FlakyTests ==
    mc_ret.op = "get_flaky_tests" =>
        LET v == mc_ret.value
            q == Qualifying(test_results, mc_ret.min_runs)
        IN  /\ Len(v) = Cardinality(q)
            /\ \A i \in q : \E k \in DOMAIN v : v[k].name = test_results[i].name
            /\ \A k \in DOMAIN v : \E i \in q :
                   LET runs == test_results[i].results
                       passes == Cardinality({n \in DOMAIN runs : runs[n]})
                   IN  /\ v[k].name = test_results[i].name
                       /\ v[k].total_runs = Len(runs)
                       /\ v[k].pass_count = passes
                       /\ v[k].fail_count = Len(runs) - passes
                       /\ QEq(v[k].flakiness_rate,
                              Q(Least(passes, Len(runs) - passes) * 100, Len(runs)))
            /\ \A k \in 1..(Len(v) - 1) :
                   QLeq(v[k + 1].flakiness_rate, v[k].flakiness_rate)

\* "a" ran pass, fail, pass (the rate of the unit test, 1/3 * 100) and "b",
\* recorded after it, ran pass, fail: with min_runs = 2 "b" is listed first
C16_Witness ==
    /\ mc_ret.op = "get_flaky_tests" /\ mc_ret.min_runs = 2
    /\ test_results = << [name |-> "a", results |-> <<TRUE, FALSE, TRUE>>],
                         [name |-> "b", results |-> <<TRUE, FALSE>>] >>
    /\ Len(mc_ret.value) = 2
    /\ mc_ret.value[1].name = "b" /\ QEq(mc_ret.value[1].flakiness_rate, QInt(50))
    /\ mc_ret.value[2].name = "a" /\ QEq(mc_ret.value[2].flakiness_rate, Q(100, 3))

\* the results recorded under a test name, in order; none for an unknown name
ResultsOf(tr, n) ==
    IF \E i \in DOMAIN tr : tr[i].name = n
    THEN tr[CHOOSE i \in DOMAIN tr : tr[i].name = n].results
    ELSE <<>>

\* one result was added at the end of one name's sequence; the sequences of
\* the other names are as they were
OneAppended(tr, tr2) ==
    \E n \in TestIds, p \in BOOLEAN :
        /\ ResultsOf(tr2, n) = Append(ResultsOf(tr, n), p)
        /\ \A m \in TestIds \ {n} : ResultsOf(tr2, m) = ResultsOf(tr, m)

\* C17: between two resets of one collector the sequence of results of every
\* test name only grows at its end: a record_test_result call appends exactly
\* one entry to one name's sequence and leaves every other name's sequence as
\* it was, and no other operation (record_metric, record_crash,
\* record_response_time, record_load_time, get_real_time_metrics,
\* get_flaky_tests, export_metrics, save, the clock, a change of the file)
\* changes any sequence. Only the construction of a collector sets them anew.
C17_ResultsAppendOnly ==
    [][/\ mc_hist'.calls = mc_hist.calls + 1 => OneAppended(test_results, test_results')
       /\ (mc_hist'.calls # mc_hist.calls + 1 /\ mc_ret'.op # "init") =>
              test_results' = test_results
      ]_vars

\* after a pass and a failure of "a" were recorded (and possibly saved) the
\* sequence of "a" holds them in that order, and no other name exists
C17_Witness ==
    /\ mc_hist = [restored |-> 0, calls |-> 2]
    /\ test_results = << [name |-> "a", results |-> <<TRUE, FALSE>>] >>
    /\ storage_path /\ storage = File(Snapshot)

\* C18: after reset() the five series (metrics, test results, crash events,
\* response times, load times) are empty and the session start is the time of
\* the reset; a get_real_time_metrics that follows, whatever time has passed,
\* reports total_tests = 0, pass_rate = 0, flaky_test_rate = 0 and no crash,
\* the values a collector constructed at the time of the reset reports.
C18_ResetClears ==
    /\ [](mc_ret.op = "reset" =>
            /\ metrics = <<>>
            /\ test_results = <<>>
            /\ crash_events = <<>>
            /\ response_times = <<>>
            /\ load_times = <<>>
            /\ session_start = mc_ret.at)
    /\ [][(mc_ret.op = "reset" /\ mc_ret'.op = "get_real_time_metrics") =>
            LET v == mc_ret'.value
            IN  /\ v.total_tests = 0 /\ v.passed_tests = 0 /\ v.failed_tests = 0
                /\ QEq(v.pass_rate, QInt(0))
                /\ QEq(v.flaky_test_rate, QInt(0))
                /\ QEq(v.crash_rate, QInt(0)) /\ Len(crash_events') = 0
                /\ SameMetrics(v, RealTimeMetrics([EmptyData EXCEPT
                                      !.session_start = mc_ret.at], mc_ret'.at))
         ]_vars

\* a collector constructed at time 0 was reset at time 1
C18_Witness ==
    /\ mc_ret.op = "reset" /\ mc_ret.at = 1
    /\ session_start = 1
    /\ Size = 0

\* lo if x < lo, hi if x > hi, else x
Clamp(x, lo, hi) == IF QLeq(x, lo) THEN lo ELSE IF QLeq(hi, x) THEN hi ELSE x

\* C19: engagement_score of get_real_time_metrics is
\* pass_rate * 0.8 + (100 - flaky_test_rate) * 0.2 clamped to [0, 100], for
\* the pass_rate and flaky_test_rate of the same result, and lies in [0, 100].
C19_EngagementScore ==
    mc_ret.op = "get_real_time_metrics" =>
        LET v == mc_ret.value
            raw == QAdd(QMul(v.pass_rate, Q(8, 10)),
                        QMul(QSub(QInt(100), v.flaky_test_rate), Q(2, 10)))
        IN  /\ QEq(v.engagement_score, Clamp(raw, QInt(0), QInt(100)))
            /\ QLeq(QInt(0), v.engagement_score)
            /\ QLeq(v.engagement_score, QInt(100))

\* of two names one is flaky, and three of four results passed:
\* 75 * 0.8 + (100 - 50) * 0.2 = 70
C19_Witness ==
    /\ mc_ret.op = "get_real_time_metrics"
    /\ QEq(mc_ret.value.pass_rate, QInt(75))
    /\ QEq(mc_ret.value.flaky_test_rate, QInt(50))
    /\ QEq(mc_ret.value.engagement_score, QInt(70))

\* the test cases with the given status in the suite added by the i-th
\* add_suite call
CasesOf(i, status) ==
    Cardinality({k \in DOMAIN suite_objs[suites[i]] : suite_objs[suites[i]][k] = status})

\* the summary at hand was generated in the present state: nothing was added
\* since
SummaryIsFresh ==
    summary.op = "generate_summary" /\ summary.seen = issue_ret.calls

C21_ReportNeverRaises ==
    summary.op \in {"generate_bullet_points", "get_trends"} => ~summary.raised

\* C22: a run_test call on a Connected adapter calls collect_metrics and
\* capture_screenshot before it returns, whether its result is PASSED, FAILED
\* or ERROR.
C22_RunTestCaptures ==
    (last.op = "run_test" /\ last.was_connected) =>
        {"metrics", "screenshot"} \subseteq last.calls

\* C23: capture_screenshot never raises, and a capture that failed returns
\* None and appends one log entry: no path is returned for a screenshot that
\* was not taken.
C23_FailedCaptureReturnsNone ==
    last.op = "capture_screenshot" =>
        /\ ~last.raised
        /\ last.check_failed => (last.ret = "None" /\ last.logged = 1)

\* C24: collect_metrics succeeds in every adapter state: it never raises and
\* returns a BenchmarkMetrics (with the defaults when the telemetry is not
\* available).
C24_MetricsNeverRaise ==
    last.op = "collect_metrics" => (~last.raised /\ last.ret = "metrics")

\* the names of a list, and a list without repetitions
Elements(s) == {s[i] : i \in DOMAIN s}
Distinct(s) == Cardinality(Elements(s)) = Len(s)

\* what get_adapter_class and create_adapter answered, against the register
\* calls made since the last clear
LookupAnswer ==
    reg_ret.op \in {"get_adapter_class", "create_adapter"} =>
        IF reg_ret.name \in DOMAIN reg_hist.since
        THEN /\ reg_ret.ret = reg_hist.since[reg_ret.name]
             /\ reg_ret.op = "create_adapter" =>
                    (reg_ret.instance > 0 /\ reg_ret.instance = reg_hist.created)
        ELSE reg_ret.ret = "None" /\ reg_ret.instance = 0

\* a lookup leaves the registry as it was, and create_adapter constructs one
\* more instance exactly when the name is registered
LookupStep ==
    reg_ret'.op \in {"get_adapter_class", "create_adapter"} =>
        /\ adapters' = adapters
        /\ reg_hist'.created =
               IF reg_ret'.op = "create_adapter"
                  /\ reg_ret'.name \in DOMAIN reg_hist.since
               THEN reg_hist.created + 1 ELSE reg_hist.created

\* C25: get_adapter_class and create_adapter return None for a name that was
\* never registered or was registered before the last clear, and leave the
\* registry unchanged; for a registered name create_adapter returns a new
\* instance of the class registered under it now.
C25_RegistryMiss == [] LookupAnswer /\ [][LookupStep]_vars

\* create_adapter returned None for a name that was registered and then cleared
C25_Witness ==
    /\ reg_ret.op = "create_adapter" /\ reg_ret.ret = "None"
    /\ reg_ret.name \in reg_hist.ever \ DOMAIN reg_hist.since
    /\ reg_hist.created > 0
    /\ adapters # <<>>

\* C26: list_adapters_by_type(type) returns, each once, exactly the names
\* registered since the last clear whose class declares that type as its
\* SOFTWARE_TYPE; a class that declares none is in no list.
C26_ListByType ==
    reg_ret.op = "list_adapters_by_type" =>
        /\ Distinct(reg_ret.value)
        /\ Elements(reg_ret.value) =
               {n \in DOMAIN reg_hist.since :
                    /\ reg_hist.since[n] \in DOMAIN SOFTWARE_TYPE
                    /\ SOFTWARE_TYPE[reg_hist.since[n]] = reg_ret.name}

\* after a clear, two classes of different types (or one without a type) are
\* registered and the list by type names only one of them
C26_Witness ==
    /\ reg_ret.op = "list_adapters_by_type"
    /\ Len(reg_ret.value) = 1
    /\ Len(adapters) = 2
    /\ reg_hist.ever # DOMAIN reg_hist.since

\* the registry holds what the register calls since the last clear put there
RegistryHolds ==
    /\ Distinct(Keys(adapters))
    /\ KeySet(adapters) = DOMAIN reg_hist.since
    /\ \A i \in DOMAIN adapters : adapters[i].class = reg_hist.since[adapters[i].name]
    /\ reg_ret.op = "list_adapters" =>
           (Distinct(reg_ret.value) /\ Elements(reg_ret.value) = DOMAIN reg_hist.since)

\* a register call under a name that is present changes that name's class and
\* nothing else
ReplaceStep ==
    (reg_ret'.op = "register" /\ reg_ret'.name \in KeySet(adapters)) =>
        /\ reg_ret'.replaced /\ reg_ret'.ret = "None"
        /\ Keys(adapters') = Keys(adapters)
        /\ \A i \in DOMAIN adapters :
               adapters[i].name # reg_ret'.name => adapters'[i] = adapters[i]

\* C27: register under a name that is already registered replaces the class
\* without an error: lookups use the new class, the names stay the same and
\* the other names keep their class; list_adapters is always the set of names
\* registered since the last clear.
C27_RegisterReplaces == [] RegistryHolds /\ [][ReplaceStep]_vars

\* a name was registered again with another class while a second name is held
C27_Witness ==
    /\ reg_ret.op = "register" /\ reg_ret.replaced
    /\ Len(adapters) = 2
    /\ adapters[1].name = reg_ret.name
    /\ adapters[1].class # adapters[2].class

\* no more probes run at a time than the pool has workers
WorkersBounded ==
    bench.phase = "running" => Cardinality(RunningProbes) <= bench.max_workers

\* what run_benchmark returned: every probe had finished, results holds one
\* result for each configuration, and the counts are those of results
Aggregated ==
    bench.phase = "returned" =>
        /\ \A i \in DOMAIN bench.probes : bench.probes[i].state = "done"
        /\ Len(bench.results) = Len(bench.configs)
        /\ \A i \in DOMAIN bench.configs :
               Cardinality({k \in DOMAIN bench.results :
                                bench.results[k].config = i}) = 1
        /\ \A k \in DOMAIN bench.results :
               /\ bench.results[k].browser = bench.configs[bench.results[k].config]
               /\ bench.results[k].success = bench.probes[bench.results[k].config].success
        /\ bench.metrics.total_tests = Len(bench.configs)
        /\ bench.metrics.passed_tests + bench.metrics.failed_tests
               = bench.metrics.total_tests
        /\ bench.metrics.passed_tests
               = Cardinality({i \in DOMAIN bench.probes : bench.probes[i].success})

\* a step of a probe (it starts or returns) changes that probe's future and
\* nothing else of the benchmark
ProbeStep ==
    (bench.phase = "running" /\ Len(bench'.probes) = Len(bench.probes)
        /\ bench'.probes # bench.probes) =>
            /\ [bench' EXCEPT !.probes = bench.probes] = bench
            /\ Cardinality({i \in DOMAIN bench.probes :
                                bench'.probes[i] # bench.probes[i]}) = 1

\* C28: run_benchmark runs at most max_workers probes at a time, the probes
\* change no shared state, and the counts are taken after every probe has
\* finished: whatever the interleaving, the returned metrics hold one result
\* per configuration, total_tests is the number of configurations and
\* passed_tests + failed_tests = total_tests.
C28_OneResultPerConfig == [] (WorkersBounded /\ Aggregated) /\ [][ProbeStep]_vars

\* three configurations on two workers returned, the results not in the
\* order of the configurations, some passed and some failed
C28_Witness ==
    /\ bench.phase = "returned"
    /\ Len(bench.configs) = 3 /\ bench.max_workers = 2
    /\ bench.results[1].config = 3
    /\ bench.metrics.passed_tests = 2 /\ bench.metrics.failed_tests = 1

\* a process that runs, or a session, page or Playwright instance that is open
Live(h) == ext[h].state \in {"running", "open"}

\* C29: an adapter holds at most one live target: whatever connect and
\* disconnect calls were made, every process or session a connect created and
\* that is still live is the one the adapter holds a handle to, so that none
\* is live once disconnect has returned.
C29_OneLiveTarget ==
    /\ \A h \in DOMAIN ext : Live(h) => h \in {process, session, playwright, page}
    /\ last.op = "disconnect" => \A h \in DOMAIN ext : ~Live(h)

\* the handles of the adapter that refer to something live
LiveHandles == {h \in {process, session, playwright, page} \ {0} : Live(h)}

\* C30: after a connect that returned False on an adapter that is not
\* Connected, the adapter holds no live process, Playwright instance, page or
\* driver session, so that cleanup, which disconnects only a Connected
\* adapter, leaves nothing live behind.
C30_FailedConnectHoldsNothing ==
    /\ (last.op = "connect" /\ last.ret = "False" /\ ~connected) => LiveHandles = {}
    /\ last.op = "cleanup" => \A h \in DOMAIN ext : ~Live(h)

\* an add_issue call that was merged changed the occurrences and the tests of
\* the issue whose id it returned, and nothing else of any issue
MergeStep ==
    (issue_ret'.calls = issue_ret.calls + 1 /\ issue_ret'.merged) =>
        /\ Len(issues') = Len(issues)
        /\ \E m \in DOMAIN issues :
              /\ issues[m].id = issue_ret'.id
              /\ \A i \in DOMAIN issues \ {m} : issues'[i] = issues[i]
              /\ issues'[m].id = issues[m].id
              /\ issues'[m].title = issues[m].title
              /\ issues'[m].description = issues[m].description
              /\ issues'[m].severity = issues[m].severity
              /\ issues'[m].screenshot = issues[m].screenshot
              /\ issues'[m].created = issues[m].created
              /\ issues'[m].occurrences = issues[m].occurrences + 1

\* an add_issue call that was not merged stored its own severity, description,
\* screenshot and time in the issue it created
CreateStep ==
    (issue_ret'.calls = issue_ret.calls + 1 /\ ~issue_ret'.merged) =>
        /\ issues'[Len(issues')].severity = issue_ret'.severity
        /\ issues'[Len(issues')].created = issue_ret'.calls
        /\ issues'[Len(issues')].description = issue_ret'.calls
        /\ issues'[Len(issues')].screenshot = issue_ret'.calls

\* critical_issues of a summary is the number of issues stored as critical
CriticalAsStored ==
    SummaryIsFresh =>
        summary.critical_issues =
            Cardinality({i \in DOMAIN issues : issues[i].severity = "critical"})

\* C31: merging a duplicate report into an issue changes only that issue's
\* occurrences and tests; its id, title, description, severity, screenshot and
\* creation time stay those of its first report and the other issues are
\* unchanged, so that generate_summary counts as critical the issues whose
\* first report was critical.
C31_MergeKeepsFirstReport ==
    [][MergeStep /\ CreateStep]_vars /\ [] CriticalAsStored

\* a critical report was merged into an issue first reported as medium, beside
\* a second issue, and the summary counts no critical issue
C31_Witness ==
    /\ issue_ret.merged /\ issue_ret.severity = "critical"
    /\ Len(issues) = 2
    /\ issue_ret.id = issues[1].id /\ issues[1].severity = "medium"
    /\ issues[1].occurrences = 2 /\ issues[1].created = 1
    /\ issues[2].severity = "medium"
    /\ SummaryIsFresh /\ summary.critical_issues = 0

\* C32: after any sequence of add_issue calls the occurrences of all issues
\* add up to the number of calls, every issue has at least one occurrence, and
\* the test lists together hold one entry for each call that gave a test name
\* (a name that is not None and not empty).
C32_OccurrencesCountCalls ==
    /\ SumSeq([i \in DOMAIN issues |-> issues[i].occurrences]) = issue_ret.calls
    /\ \A i \in DOMAIN issues : issues[i].occurrences >= 1
    /\ SumSeq([i \in DOMAIN issues |-> Len(issues[i].tests)]) = issue_ret.named

\* three calls made two issues; one call gave a name, and the last, merged
\* call gave the empty name
C32_Witness ==
    /\ issue_ret.calls = 3 /\ Len(issues) = 2
    /\ issue_ret.named = 1
    /\ issue_ret.merged /\ issue_ret.test_name = ""
    /\ \E i \in DOMAIN issues : issues[i].occurrences = 2

\* the launched processes that have exited on their own
CrashedProcesses ==
    {h \in DOMAIN ext : ext[h].type = "process" /\ ext[h].state = "exited"}

\* C33: WindowsAdapter counts each crash of the target process once:
\* crash_count never exceeds the number of processes that have crashed, however
\* many run_test calls are made against a process that has already exited.
C33_CrashCountedOnce ==
    kind = "windows" => crash_count <= Cardinality(CrashedProcesses)

\* C34: settings persist across partial configure calls: each setting the
\* adapter derives from its configuration store (here GameAdapter's screenshot
\* directory and AirTest flag) equals the value the store holds for it, so a
\* configure call that omits a key does not put the setting back to its default.
C34_SettingsFollowStore ==
    kind = "game" =>
        /\ "screenshot_dir" \in DOMAIN config => screenshot_dir = config["screenshot_dir"]
        /\ "airtest_enabled" \in DOMAIN config => airtest_enabled = config["airtest_enabled"]

\* C35: run_benchmark always eventually returns: a call that has started
\* leads to its return, every probe being ended by its timeout at the latest.
C35_BenchmarkReturns ==
    (bench.phase = "running") ~> (bench.phase = "returned")

\* a disconnect (or a cleanup that disconnects) of an adapter that holds a
\* process handle: terminate comes first, then the bounded wait, then kill
\* exactly when the process was running and outlived the wait; the handle is
\* cleared and the adapter is Disconnected
ReleaseStep ==
    (last'.op = "disconnect" /\ process # 0) =>
        /\ last'.stops \in {<<"terminate", "wait">>, <<"terminate", "wait", "kill">>}
        /\ (Len(last'.stops) = 3) <=>
               (ext[process].state = "running" /\ ext'[process].state = "killed")
        /\ ext'[process].state # "running"
        /\ process' = 0
        /\ ~connected'

\* C36: disconnect releases a launched process by asking it to terminate,
\* waiting a bounded time, and killing it only if it has not exited by then;
\* either way the handle is cleared and the adapter ends Disconnected, and
\* kill never comes before terminate.
C36_TerminateThenKill == [][ReleaseStep]_vars

\* a disconnect killed a process that did not exit in time
C36_Witness ==
    /\ last.op = "disconnect" /\ last.stops = <<"terminate", "wait", "kill">>
    /\ process = 0 /\ ~connected
    /\ \E h \in DOMAIN ext : ext[h].state = "killed"

\* a step that is no reset() keeps every name with a pass and a failure
\* among its results such a name, with at least as many runs
StaysFlaky ==
    (mc_ret'.op # "reset") =>
        \A i \in MixedNames(test_results) :
            \E j \in MixedNames(test_results') :
                /\ test_results'[j].name = test_results[i].name
                /\ Len(test_results'[j].results) >= Len(test_results[i].results)

\* what the two reports make of the names with a pass and a failure
FlakyReported ==
    /\ \A i \in MixedNames(test_results) : CountedFlaky(test_results[i].results)
    /\ mc_ret.op = "get_real_time_metrics" =>
           QEq(mc_ret.value.flaky_test_rate,
               IF Len(test_results) = 0 THEN QInt(0)
               ELSE Q(Cardinality(MixedNames(test_results)) * 100, Len(test_results)))
    /\ mc_ret.op = "get_flaky_tests" =>
           \A i \in MixedNames(test_results) :
               Len(test_results[i].results) >= mc_ret.min_runs =>
                   \E k \in DOMAIN mc_ret.value :
                       mc_ret.value[k].name = test_results[i].name

\* C37: flakiness is monotone between resets: once the results recorded under
\* a test name hold a pass and a failure, every step other than reset() leaves
\* it so, with no fewer runs; every get_real_time_metrics counts each such name
\* as flaky and every get_flaky_tests(min_runs) with min_runs at most the
\* name's run count lists it.
C37_FlakyUntilReset == [][StaysFlaky]_vars /\ []FlakyReported

\* "a" passed, failed, and then passed twice more: it is still listed
C37_Witness ==
    /\ mc_ret.op = "get_flaky_tests" /\ mc_ret.min_runs = 3
    /\ ResultsOf(test_results, "a") = <<TRUE, FALSE, TRUE, TRUE>>
    /\ \E k \in DOMAIN mc_ret.value :
           mc_ret.value[k].name = "a" /\ mc_ret.value[k].total_runs = 4

\* the flaky count behind the flaky_test_rate that get_real_time_metrics
\* returns on the collector as it is: flaky_test_rate x names / 100
FlakyCountBehindRate ==
    QMul(RealTimeMetrics(Snapshot, now).flaky_test_rate, Q(Len(test_results), 100))

\* C38: the two flakiness reports agree where their thresholds overlap: for
\* every min_runs, each name get_flaky_tests(min_runs) returns is one that
\* get_real_time_metrics counts as flaky; for min_runs <= 2 the number of
\* entries returned equals the flaky count behind flaky_test_rate
\* (flaky_test_rate x distinct names / 100); each returned flakiness_rate is
\* greater than 0 and at most 50.
C38_FlakyReportsAgree ==
    mc_ret.op = "get_flaky_tests" =>
        LET v == mc_ret.value
        IN  /\ \A k \in DOMAIN v :
                   /\ CountedFlaky(ResultsOf(test_results, v[k].name))
                   /\ ~QLeq(v[k].flakiness_rate, QInt(0))
                   /\ QLeq(v[k].flakiness_rate, QInt(50))
            /\ mc_ret.min_runs <= 2 => QEq(QInt(Len(v)), FlakyCountBehindRate)

\* get_flaky_tests(1) on a collector with a name that passed and failed and a
\* name that ran once: one entry, and half the names counted as flaky
C38_Witness ==
    /\ mc_ret.op = "get_flaky_tests" /\ mc_ret.min_runs = 1
    /\ Len(test_results) = 2
    /\ \E i \in DOMAIN test_results : Len(test_results[i].results) = 1
    /\ Len(mc_ret.value) = 1
    /\ QEq(RealTimeMetrics(Snapshot, now).flaky_test_rate, QInt(50))

\* 1 when the count gets a line of its own, else 0
LineFor(count) == IF count > 0 THEN 1 ELSE 0

\* the place of issue i among the issue lines: behind the issues of a more
\* severe rank and those of its own rank that were reported before it
PlaceOf(i) ==
    1 + Cardinality({j \in DOMAIN issues :
                        \/ SeverityRanks[issues[j].severity]
                               < SeverityRanks[issues[i].severity]
                        \/ /\ issues[j].severity = issues[i].severity
                           /\ j < i})

\* C39: generate_bullet_points returns an ordered list fixed by the
\* generator's state: first the overall pass-rate line; then a failed-count
\* line if and only if failed > 0; then a broken-count line iff broken > 0;
\* then a critical-issue-count line iff critical_issues > 0; then exactly one
\* line per recorded issue, ordered by severity rank critical, high, medium,
\* low, issues of equal severity in insertion order, each with its occurrence
\* count if and only if that count is > 1 (the issues' severities being among
\* the four that have a rank).
C39_BulletOrder ==
    (/\ summary.op = "generate_bullet_points"
     /\ summary.seen = issue_ret.calls
     /\ \A i \in DOMAIN issues : issues[i].severity \in DOMAIN SeverityRanks) =>
        /\ ~summary.raised
        /\ LET v == summary.value
               failed == AllStats("failed")
               broken == AllStats("broken")
               critical == Cardinality({i \in DOMAIN issues :
                                           issues[i].severity = "critical"})
               off == 1 + LineFor(failed) + LineFor(broken) + LineFor(critical)
           IN  /\ Len(v) = off + Len(issues)
               /\ v[1].kind = "ran" /\ v[1].total = AllStats("total")
               /\ failed > 0 => v[2] = [kind |-> "failed", count |-> failed]
               /\ broken > 0 =>
                      v[2 + LineFor(failed)] = [kind |-> "broken", count |-> broken]
               /\ critical > 0 => v[off] = [kind |-> "critical", count |-> critical]
               /\ \A k \in 2..off : v[k].kind \in {"failed", "broken", "critical"}
               /\ \A i \in DOMAIN issues :
                      v[off + PlaceOf(i)] =
                          [kind |-> "issue", severity |-> issues[i].severity,
                           title |-> issues[i].title,
                           times |-> IF issues[i].occurrences > 1
                                     THEN issues[i].occurrences ELSE 0]

\* a medium issue reported before a critical one, beside a suite with a
\* failed and a broken case: five lines before the issues' two, the critical
\* issue first
C39_Witness ==
    /\ summary.op = "generate_bullet_points" /\ summary.seen = issue_ret.calls
    /\ ~summary.raised
    /\ Len(issues) = 2
    /\ issues[1].severity = "medium" /\ issues[2].severity = "critical"
    /\ Len(summary.value) = 6
    /\ summary.value[2].kind = "failed" /\ summary.value[3].kind = "broken"
    /\ summary.value[4].kind = "critical"
    /\ summary.value[5].title = issues[2].title
    /\ summary.value[6].title = issues[1].title

\* C40: in the launcher, stop_tests on the UI thread is safe against the
\* worker thread running run_robot_test: in every interleaving of its
\* check-then-terminate of current_process with the worker clearing
\* current_process when the subprocess finishes, stop_tests either terminates
\* the still-running subprocess or does nothing, it never invokes terminate
\* on a cleared handle, and once the stop event is set the worker starts no
\* further scenario.
C40_StopTestsSafe ==
    /\ ~app.stop_raised
    /\ app.stop_did \in {"-", "terminated", "nothing"}
    /\ ~app.late_start

====
